---- MODULE Spec2Model ----
(***************************************************************************)
(* Hybrid retrieval, fusion and reranking of svseas/light-rag.             *)
(*                                                                         *)
(*   SpecFuse  the pure ranking functions of reranking_service.py          *)
(*             (RRFFusion.fuse, CrossEncoderReranker.rerank,               *)
(*             RerankingService.process_results) applied to input lists    *)
(*             drawn from bounded sets.                                    *)
(*   Spec      one QueryService.process_query request: k-value plan,       *)
(*             SearchService.search_all with its three concurrent strategy *)
(*             tasks, freshness scoring, reranking, error handling.        *)
(*   FairSpec  one request of Spec with weak fairness on every step the    *)
(*             event loop takes.                                           *)
(*   SpecK     calculate_k_values on generated queries.                    *)
(*   SpecFresh the pure functions of FreshnessScorer.                      *)
(*   SpecService  repeated process_results calls on one RerankingService.  *)
(*   SpecHistory  the requests of one user's conversation: context         *)
(*             expansion of the query and the query_history rows.          *)
(*   SpecPipeline, FairPipeline  the executions of PipelineService.        *)
(*                                                                         *)
(* Scores are fixed-point integers.  A relevance score s is kept as        *)
(* s * ScoreScale, a reciprocal rank 1/(k+r) as RRFScale \div (k+r).       *)
(***************************************************************************)
EXTENDS Integers, Sequences, FiniteSets, TLC

(* ------------------------------ bounds -------------------------------- *)
NumIds == 3          \* ids that the short input lists of SpecFuse range over
MaxTotal == 3        \* most results in the three short input lists together
LongLen == 9         \* length of the long input list of SpecFuse
MaxRows == 9         \* most rows an index returns to one strategy in Spec
MaxWords == 9        \* most words of a query in SpecK
MaxTerms == 9        \* most expansion terms in SpecK
MaxAge == 400        \* oldest document of SpecFresh, in days
MaxFuture == 2       \* latest created_at after current_time, in days

(* ------------------------- program constants -------------------------- *)
RRF_K == 60
RerankTopK == 25
DefaultFinalK == 5
FallbackFinalK == 20
ScoreScale == 1000
RRFScale == 1000000000

None == -1
Strategies == {"keyword", "semantic", "graph"}
Ids == 1..NumIds

Min(a, b) == IF a <= b THEN a ELSE b
Max(a, b) == IF a >= b THEN a ELSE b

(* ----------------------------- SearchResult --------------------------- *)
\* metadata dict: a key the code has not set is None / "none"
EmptyMetadata ==
    [type |-> "none", rrf_score |-> None, original_score |-> None,
     cross_encoder_score |-> None, freshness_category |-> "none",
     age_days |-> None, freshness_boost |-> None]

SearchResult(id, content, source, score, metadata) ==
    [id |-> id, content |-> content, source |-> source, score |-> score,
     metadata |-> metadata]

\* a document name per id; "unknown" stands for a row without one
SourceOf(id) ==
    CASE id % 4 = 1 -> "doc_a"
      [] id % 4 = 2 -> "doc_b"
      [] id % 4 = 3 -> "unknown"
      [] OTHER      -> "doc_c"

(* ------------------------------ sorting ------------------------------- *)
\* sorted(xs, key=score, reverse=True): stable, descending
\* (an insertion that puts x before the items of equal score)
InsertDescBeforeEquals(x, s) ==
    LET p == Cardinality({i \in 1..Len(s) : s[i].score > x.score})
    IN  SubSeq(s, 1, p) \o <<x>> \o SubSeq(s, p + 1, Len(s))

InsertDesc(x, s) ==
    LET p == Cardinality({i \in 1..Len(s) : s[i].score >= x.score})
    IN  SubSeq(s, 1, p) \o <<x>> \o SubSeq(s, p + 1, Len(s))

RECURSIVE SortedDesc(_)
SortedDesc(s) ==
    IF s = <<>> THEN <<>>
    ELSE InsertDesc(s[Len(s)], SortedDesc(SubSeq(s, 1, Len(s) - 1)))

(* ------------------------------ RRFFusion ----------------------------- *)
\* 1.0 / (self.k + rank)
Reciprocal(rank) == RRFScale \div (RRF_K + rank)

\* (the loop counting ranks from 0)
AccumulateZeroBased(acc, rank, result) ==
    IF \E i \in 1..Len(acc) : acc[i].id = result.id
    THEN [i \in 1..Len(acc) |->
            IF acc[i].id = result.id
            THEN [id |-> acc[i].id,
                  score |-> acc[i].score + RRFScale \div (RRF_K + rank - 1),
                  result |-> result]
            ELSE acc[i]]
    ELSE Append(acc, [id |-> result.id,
                      score |-> RRFScale \div (RRF_K + rank - 1),
                      result |-> result])

\* one loop iteration: rrf_scores[id] = rrf_scores.get(id, 0) + 1/(k+rank);
\* result_lookup[id] = result.  acc is the dict pair in insertion order.
Accumulate(acc, rank, result) ==
    IF \E i \in 1..Len(acc) : acc[i].id = result.id
    THEN [i \in 1..Len(acc) |->
            IF acc[i].id = result.id
            THEN [id |-> acc[i].id,
                  score |-> acc[i].score + Reciprocal(rank),
                  result |-> result]
            ELSE acc[i]]
    ELSE Append(acc, [id |-> result.id, score |-> Reciprocal(rank),
                      result |-> result])

\* for rank, result in enumerate(results, 1)
RECURSIVE FuseList(_, _, _)
FuseList(acc, results, rank) ==
    IF rank > Len(results) THEN acc
    ELSE FuseList(Accumulate(acc, rank, results[rank]), results, rank + 1)

fuse(keyword, semantic, graph) ==
    LET acc == FuseList(FuseList(FuseList(<<>>, keyword, 1), semantic, 1),
                        graph, 1)
        sorted_items == SortedDesc(acc)
    IN  [i \in 1..Len(sorted_items) |->
            LET it == sorted_items[i]
            IN  SearchResult(it.id, it.result.content, it.result.source,
                    it.score,
                    [it.result.metadata EXCEPT
                        !.rrf_score = it.score,
                        !.original_score = it.result.score])]

(* --------------------- the doubles of RRFFusion ----------------------- *)
\* A double between 2^-8 and 1 is kept as its value in units of 2^-60, an
\* integer written in four digits of base 2^15, most significant digit first.
\* (1.0 / (k + rank) is such a double for k + rank <= 256.)
DigitBase == 32768
ZeroDouble == <<0, 0, 0, 0>>

\* the spacing of the doubles around a value whose leading digit is d1:
\* 53 significant bits, so 1 below 2^53 and doubling with every binade
RECURSIVE Ulp(_)
Ulp(d1) == IF d1 < 256 THEN 1 ELSE 2 * Ulp(d1 \div 2)

\* carries from the least significant digit upwards
Carried(d) ==
    LET c3 == d[3] + d[4] \div DigitBase
        c2 == d[2] + c3 \div DigitBase
        c1 == d[1] + c2 \div DigitBase
    IN  <<c1, c2 % DigitBase, c3 % DigitBase, d[4] % DigitBase>>

\* round to nearest, ties to even: exact is d + num/den with 0 <= num < den
RoundNearestEven(d, num, den) ==
    LET m == Ulp(d[1])
        r == d[4] % m
        down == <<d[1], d[2], d[3], d[4] - r>>
        up == Carried(<<d[1], d[2], d[3], d[4] - r + m>>)
        twice == 2 * (r * den + num)
    IN  IF twice < m * den THEN down
        ELSE IF twice > m * den THEN up
        ELSE IF ((d[4] - r) \div m) % 2 = 0 THEN down ELSE up

\* x + y on doubles
FloatAdd(x, y) ==
    RoundNearestEven(Carried([i \in 1..4 |-> x[i] + y[i]]), 0, 1)

\* 1.0 / (self.k + rank): long division of 2^60, then rounding
FloatReciprocal(rank) ==
    LET den == RRF_K + rank
        r1 == DigitBase % den
        r2 == (r1 * DigitBase) % den
        r3 == (r2 * DigitBase) % den
        r4 == (r3 * DigitBase) % den
    IN  RoundNearestEven(<<DigitBase \div den, (r1 * DigitBase) \div den,
                           (r2 * DigitBase) \div den,
                           (r3 * DigitBase) \div den>>, r4, den)

\* for rank, result in enumerate(results, 1):
\*     rrf_scores[result.id] = rrf_scores.get(result.id, 0) + 1.0/(k + rank)
RECURSIVE ScoreList(_, _, _)
ScoreList(scores, results, rank) ==
    IF rank > Len(results) THEN scores
    ELSE ScoreList([scores EXCEPT ![results[rank].id] =
                        FloatAdd(@, FloatReciprocal(rank))],
                   results, rank + 1)

\* the dict rrf_scores after the three loops of fuse, its values the doubles
\* the code computes (an id without an entry reads as 0, as .get(id, 0))
rrf_scores(keyword, semantic, graph) ==
    LET ids == {keyword[i].id : i \in 1..Len(keyword)}
                 \cup {semantic[i].id : i \in 1..Len(semantic)}
                 \cup {graph[i].id : i \in 1..Len(graph)}
    IN  ScoreList(ScoreList(ScoreList([id \in ids |-> ZeroDouble],
                                      keyword, 1), semantic, 1), graph, 1)

(* ------------------------------- text --------------------------------- *)
\* a query is the sequence of its characters
Lower(c) ==
    CASE c = "W" -> "w" [] c = "L" -> "l" [] c = "B" -> "b"
      [] c = "T" -> "t" [] c = "E" -> "e" [] OTHER -> c
lower(text) == [i \in 1..Len(text) |-> Lower(text[i])]

\* keyword in text (substring test)
Contains(text, keyword) ==
    \E i \in 0..(Len(text) - Len(keyword)) :
        \A j \in 1..Len(keyword) : text[i + j] = keyword[j]

\* len(text.split())
WordCount(text) ==
    Cardinality({i \in 1..Len(text) :
        text[i] # " " /\ (i = 1 \/ text[i - 1] = " ")})

\* not text.strip()
IsBlank(text) == \A i \in 1..Len(text) : text[i] = " "

(* --------------------------- FreshnessScorer -------------------------- *)
\* FreshnessConfig; weights and boost factors in thousandths
recent_threshold_days == 7
old_threshold_days == 180
max_age_days == 365
half_life_days == 30
base_weight == 200
temporal_queries_weight == 400

temporal_keywords == {
    <<"r", "e", "c", "e", "n", "t">>,
    <<"l", "a", "t", "e", "s", "t">>,
    <<"n", "e", "w">>,
    <<"c", "u", "r", "r", "e", "n", "t">>,
    <<"t", "o", "d", "a", "y">>,
    <<"y", "e", "s", "t", "e", "r", "d", "a", "y">>,
    <<"l", "a", "s", "t", " ", "w", "e", "e", "k">>,
    <<"l", "a", "s", "t", " ", "m", "o", "n", "t", "h">>,
    <<"t", "h", "i", "s", " ", "y", "e", "a", "r">>,
    <<"2", "0", "2", "4">>,
    <<"2", "0", "2", "3">>,
    <<"u", "p", "d", "a", "t", "e", "d">>,
    <<"f", "r", "e", "s", "h">>,
    <<"m", "o", "d", "e", "r", "n">>,
    <<"c", "o", "n", "t", "e", "m", "p", "o", "r", "a", "r", "y">>,
    <<"n", "o", "w">>,
    <<"r", "e", "c", "e", "n", "t", "l", "y">>,
    <<"c", "u", "r", "r", "e", "n", "t", "l", "y">>,
    <<"o", "n", "g", "o", "i", "n", "g">>,
    <<"l", "a", "t", "e", "s", "t", " ", "n", "e", "w", "s">>}

is_temporal_query(query) ==
    \E keyword \in temporal_keywords : Contains(lower(query), keyword)

\* (the base weight for every query)
calculate_weight_for_queryBase(query) == base_weight

calculate_weight_for_query(query) ==
    IF is_temporal_query(query) THEN temporal_queries_weight ELSE base_weight

\* FreshnessConfig(): the defaults; a scorer is given one at construction
FreshnessConfig ==
    [half_life_days |-> half_life_days, max_age_days |-> max_age_days,
     base_weight |-> base_weight,
     temporal_queries_weight |-> temporal_queries_weight,
     recent_threshold_days |-> recent_threshold_days,
     old_threshold_days |-> old_threshold_days]

\* a datetime is a number of hours; (current_time - created_at).days is the
\* floor of the difference in days, negative for a later created_at
HoursPerDay == 24
age_days_of(created_at, current_time) ==
    (current_time - created_at) \div HoursPerDay

\* math.exp(-math.log(2) / 30 * age_days) = 2^-(age_days / 30), in units of
\* 1/FreshScale: 2^-(r/30) for r = 0..29, halved for every full half-life
FreshScale == 1000000000
HalfLifeDecay ==
    <<1000000000, 977159968, 954841604, 933032992, 911722489, 890898718,
      870550563, 850667161, 831237896, 812252396, 793700526, 775572381,
      757858283, 740548776, 723634619, 707106781, 690956440, 675174973,
      659753955, 644685154, 629960525, 615572207, 601512518, 587773953,
      574349177, 561231024, 548412490, 535886731, 523647061, 511686946>>
RECURSIVE Halved(_, _)
Halved(x, n) ==
    IF n = 0 THEN x
    ELSE IF n > 0 THEN Halved(x \div 2, n - 1)
    ELSE Halved(2 * x, n + 1)
exp_decay(age_days) ==
    Halved(HalfLifeDecay[(age_days % half_life_days) + 1],
           age_days \div half_life_days)

\* boost_factor = max(boost_factor, 0.1), without the floor
ClampBoostNone(boost_factor) == boost_factor

\* boost_factor = max(boost_factor, 0.1)
ClampBoost(boost_factor) == Max(boost_factor, 100)

\* FreshnessScorer(config).calculate_freshness_score for a document of this
\* age: the FreshnessScore it returns
FreshnessScore(config, age_days) ==
    LET min_score == exp_decay(config.max_age_days)
        raw ==
          IF age_days <= config.recent_threshold_days
          THEN [freshness_category |-> "recent",
                boost_factor |-> 1000 + (config.base_weight * 5) \div 10]
          ELSE IF age_days <= config.old_threshold_days
          THEN [freshness_category |-> "moderate", boost_factor |-> 1000]
          ELSE IF age_days <= config.max_age_days
          THEN [freshness_category |-> "old",
                boost_factor |-> 1000 - (config.base_weight * 3) \div 10]
          ELSE [freshness_category |-> "very_old",
                boost_factor |-> 1000 - (config.base_weight * 5) \div 10]
    IN  [age_days |-> age_days,
         freshness_score |-> Max(exp_decay(age_days), min_score),
         freshness_category |-> raw.freshness_category,
         boost_factor |-> ClampBoost(raw.boost_factor)]

\* default_freshness_scorer.calculate_freshness_score
calculate_freshness_score(age_days) == FreshnessScore(FreshnessConfig, age_days)

\* original_score * (1.0 + (boost_factor - 1.0) * weight)
apply_freshness_boost(original_score, freshness_score, query) ==
    LET weight == calculate_weight_for_query(query)
        freshness_boost == ((freshness_score.boost_factor - 1000) * weight)
                               \div 1000
    IN  (original_score * (1000 + freshness_boost)) \div 1000

(* ------------------------ AdaptiveTopKCalculator ---------------------- *)
base_k == 50
max_k == 100
min_k == 20

question_words == {
    <<"h", "o", "w">>,
    <<"w", "h", "y">>,
    <<"w", "h", "a", "t">>,
    <<"w", "h", "e", "n">>,
    <<"w", "h", "e", "r", "e">>,
    <<"c", "o", "m", "p", "a", "r", "e">>,
    <<"a", "n", "a", "l", "y", "z", "e">>}

\* _query_complexity in units of 1/(40 * number of factors); expansions is
\* None or the number of expansion terms
QueryComplexity(query, expansions) ==
    LET word_count == WordCount(query)
        has_question ==
            \E word \in question_words : Contains(lower(query), word)
        n == IF expansions = None THEN 2 ELSE 3
        total == 5 * Min(word_count, 8)
                 + (IF has_question THEN 32 ELSE 16)
                 + (IF expansions = None THEN 0 ELSE 5 * Min(expansions, 8))
    IN  [n |-> n, value |-> Max(20 * n, Min(60 * n, total + 20 * n)),
         \* the one input class where the float product base_k * complexity
         \* is not the exact one: 50 * ((1.0 + 0.4 + 1.0) / 3 + 0.5) is
         \* 64.99999999999999 in IEEE doubles
         inexact |-> (expansions # None /\ total = 96)]

\* (k-values without the cap on rerank_k)
calculate_k_valuesUncapped(query, expansions) ==
    LET complexity == QueryComplexity(query, expansions)
        product == (base_k * complexity.value) \div (40 * complexity.n)
        truncated == IF complexity.inexact THEN product - 1 ELSE product
        adjusted_k == Max(min_k, Min(max_k, truncated))
    IN  [keyword_k |-> adjusted_k,
         semantic_k |-> adjusted_k,
         graph_k |-> Max(10, adjusted_k \div 2),
         rerank_k |-> adjusted_k \div 2,
         final_k |-> 5]

calculate_k_values(query, expansions) ==
    LET complexity == QueryComplexity(query, expansions)
        product == (base_k * complexity.value) \div (40 * complexity.n)
        truncated == IF complexity.inexact THEN product - 1 ELSE product
        adjusted_k == Max(min_k, Min(max_k, truncated))
    IN  [keyword_k |-> adjusted_k,
         semantic_k |-> adjusted_k,
         graph_k |-> Max(10, adjusted_k \div 2),
         rerank_k |-> Min(25, adjusted_k \div 2),
         final_k |-> 5]

(* -------------------------- CrossEncoderReranker ---------------------- *)
\* the relevance models the checks range over: model.predict is a function
\* of the (query, content) pair, content being <<kind, id>>
CEModels == 1..3
predict(m, query, content) ==
    CASE m = 1 -> content[2] * ScoreScale
      [] m = 2 -> (100 - content[2]) * ScoreScale
      [] OTHER -> 5 * ScoreScale

\* what a call returns or raises; sent is the number of pairs given to
\* model.predict (None when predict was not called)
Returned(value, sent) == [raised |-> "none", value |-> value, sent |-> sent]
Raised(type) == [raised |-> type, value |-> <<>>, sent |-> None]

\* (reranking every result instead of the first top_k)
rerankAll(query, results, top_k, installed, m) ==
    IF results = <<>> THEN Returned(<<>>, None)
    ELSE IF ~installed THEN Raised("ImportError")
    ELSE Returned(SortedDesc(
             [i \in 1..Len(results) |->
                 SearchResult(results[i].id, results[i].content,
                     results[i].source,
                     predict(m, query, results[i].content),
                     [results[i].metadata EXCEPT
                         !.cross_encoder_score =
                             predict(m, query, results[i].content)])]),
             Len(results))

\* installed: whether sentence_transformers can be imported (model property)
rerank(query, results, top_k, installed, m) ==
    IF results = <<>> THEN Returned(<<>>, None)
    ELSE LET candidates == SubSeq(results, 1, Min(top_k, Len(results)))
         IN  IF ~installed THEN Raised("ImportError")
             ELSE Returned(SortedDesc(
                      [i \in 1..Len(candidates) |->
                          LET r == candidates[i]
                              score == predict(m, query, r.content)
                          IN  SearchResult(r.id, r.content, r.source, score,
                                  [r.metadata EXCEPT
                                      !.cross_encoder_score = score])]),
                      Len(candidates))

(* --------------------------- RerankingService ------------------------- *)
\* (an off-by-one final slice)
process_resultsOneMore(query, keyword, semantic, graph, final_k, use_cross_encoder, installed, m) ==
    LET fused_results == fuse(keyword, semantic, graph)
        reranked ==
            IF use_cross_encoder /\ fused_results # <<>>
            THEN rerank(query, fused_results, RerankTopK, installed, m)
            ELSE Returned(fused_results, None)
    IN  IF reranked.raised # "none" THEN reranked
        ELSE Returned(SubSeq(reranked.value, 1,
                          Min(final_k + 1, Len(reranked.value))),
                      reranked.sent)

process_results(query, keyword, semantic, graph, final_k, use_cross_encoder, installed, m) ==
    LET fused_results == fuse(keyword, semantic, graph)
        reranked ==
            IF use_cross_encoder /\ fused_results # <<>>
            THEN rerank(query, fused_results, RerankTopK, installed, m)
            ELSE Returned(fused_results, None)
    IN  IF reranked.raised # "none" THEN reranked
        ELSE Returned(SubSeq(reranked.value, 1,
                          Min(final_k, Len(reranked.value))),
                      reranked.sent)

(* ============================ state =================================== *)
VARIABLES
    keyword_results,    \* SearchService.search_all / fuse argument
    semantic_results,
    graph_results,
    call,               \* SpecFuse: the function applied and its arguments
    ret,                \* SpecFuse: what the call returned or raised
    pc,                 \* where process_query / search_all stands
    query,              \* request.query
    expansions,         \* number of terms expand_query returned
    installed,          \* sentence_transformers can be imported
    document_ids,       \* request.document_ids is a non-empty list
    user_id,            \* request.user_id is set
    k_values,           \* calculate_optimal_k(...)
    task,               \* state of the three tasks search_all creates
    task_value,         \* what each finished task returned
    log,                \* messages printed by the strategies
    lookups,            \* document-metadata fetches issued by the request
    freshness_calls,    \* calls of _apply_freshness_scoring per result list
    given,              \* results semantic_search gave to the strategy
    query_history,      \* rows of the query_history table, latest first
    clock,              \* datetime.now(), in minutes
    executions,         \* the PipelineExecution objects and their coroutines
    active_executions,  \* ids of PipelineService.active_executions
    io,                 \* I/O operations the request has issued
    search_results,     \* SearchResults returned by search_all
    reranked_results,   \* outcome of process_results
    error,              \* exception caught by process_query's handler
    raised              \* type of the exception the caller receives

fuseVars == <<call, ret>>
listVars == <<keyword_results, semantic_results, graph_results>>
requestVars == <<query, expansions, installed, document_ids, user_id>>
historyVars == <<query_history, clock>>
pipelineVars == <<executions, active_executions>>
queryVars == <<pc, query, expansions, installed, document_ids, user_id,
               k_values, task, task_value, log, lookups, freshness_calls,
               given, query_history, clock, executions, active_executions, io,
               search_results, reranked_results, error, raised>>
vars == <<keyword_results, semantic_results, graph_results, call, ret, pc,
          query, expansions, installed, document_ids, user_id, k_values, task,
          task_value, log, lookups, freshness_calls, given, query_history,
          clock, executions, active_executions, io, search_results,
          reranked_results, error, raised>>

\* no conversation has been stored and no pipeline has been started
NoConversation == query_history = <<>> /\ clock = 0
NoPipeline == executions = <<>> /\ active_executions = {}

\* the three lists the caller holds
AllLists == <<keyword_results, semantic_results, graph_results>>
NoKValues == [keyword_k |-> None, semantic_k |-> None, graph_k |-> None,
              rerank_k |-> None, final_k |-> None]
NoResults == [returned |-> FALSE, keyword_results |-> <<>>,
              semantic_results |-> <<>>, graph_results |-> <<>>,
              total_results |-> None]
NoError == [type |-> "none", origin |-> "none"]
NoTasks == [s \in Strategies |-> "none"]
NoValues == [s \in Strategies |-> <<>>]
NoCalls == [s \in Strategies |-> 0]

(* ===================== SpecFuse: the pure functions ==================== *)
\* the engine's native score of the row at position pos of a strategy's
\* list: descending in pos (ORDER BY score DESC), on a scale of its own
KindBase(kind) ==
    CASE kind = "keyword" -> 100 [] kind = "semantic" -> 200
      [] kind = "relationship" -> 400 [] OTHER -> 300
InputScore(kind, pos) == (KindBase(kind) - pos) * ScoreScale

\* the list a strategy of this kind builds from rows with these ids
InputList(kind, ids) ==
    [p \in 1..Len(ids) |->
        SearchResult(ids[p], <<kind, ids[p]>>, SourceOf(ids[p]),
            InputScore(kind, p), [EmptyMetadata EXCEPT !.type = kind])]

LongIdList(kind) == [p \in 1..LongLen |-> KindBase(kind) + p]

\* short lists: every triple of lists over Ids, repeated ids included, with at
\* most MaxTotal results together
ShortLengths ==
    {n \in (0..MaxTotal) \X (0..MaxTotal) \X (0..MaxTotal) :
        n[1] + n[2] + n[3] <= MaxTotal}
ShortLists(kind, n) == {InputList(kind, ids) : ids \in [1..n -> Ids]}
\* long lists: each list is empty, one result, or LongLen results with ids of
\* its own
LongLists(kind) ==
    {InputList(kind, ids) :
        ids \in {<<>>, LongIdList(kind)} \cup {<<id>> : id \in Ids}}

\* lists sharing id 1 at rank 1 or 2, next to a result of the list's own
SharedRankLists(kind) ==
    {InputList(kind, ids) :
        ids \in {<<>>, <<1>>, <<KindBase(kind) + 1, 1>>,
                 <<1, KindBase(kind) + 1>>}}

FinalKs == {0, 1, 2, DefaultFinalK, 30}
TopKs == {0, 1, 2, RerankTopK}
NoCall == [op |-> "none", top_k |-> None, final_k |-> None,
           use_cross_encoder |-> FALSE, installed |-> FALSE, model |-> None]
NoRet == [raised |-> "none", value |-> <<>>, sent |-> None]
TheQuery == "q"

InitFuse ==
    /\ \/ \E n \in ShortLengths :
             /\ keyword_results \in ShortLists("keyword", n[1])
             /\ semantic_results \in ShortLists("semantic", n[2])
             /\ graph_results \in ShortLists("graph", n[3])
       \/ /\ keyword_results \in LongLists("keyword")
          /\ semantic_results \in LongLists("semantic")
          /\ graph_results \in LongLists("graph")
       \/ /\ keyword_results \in SharedRankLists("keyword")
          /\ semantic_results \in SharedRankLists("semantic")
          /\ graph_results \in SharedRankLists("graph")
    /\ call = NoCall
    /\ ret = NoRet
    /\ pc = "pure"
    /\ query = <<>>
    /\ expansions = None
    /\ installed = FALSE
    /\ document_ids = FALSE
    /\ user_id = FALSE
    /\ k_values = NoKValues
    /\ task = NoTasks
    /\ task_value = NoValues
    /\ log = {}
    /\ lookups = 0
    /\ freshness_calls = NoCalls
    /\ given = None
    /\ NoConversation
    /\ NoPipeline
    /\ io = {}
    /\ search_results = NoResults
    /\ reranked_results = NoRet
    /\ error = NoError
    /\ raised = "none"

\* RRFFusion().fuse(keyword_results, semantic_results, graph_results)
CallFuse ==
    /\ call.op = "none"
    /\ call' = [NoCall EXCEPT !.op = "fuse"]
    /\ ret' = Returned(fuse(keyword_results, semantic_results, graph_results),
                       None)
    /\ UNCHANGED <<listVars, queryVars>>

\* CrossEncoderReranker().rerank(query, candidates, top_k) on the fused list
CallRerank ==
    /\ call.op = "none"
    /\ \E top_k \in TopKs, inst \in BOOLEAN, m \in CEModels :
        /\ inst \/ m = 1
        /\ call' = [NoCall EXCEPT !.op = "rerank", !.top_k = top_k,
                       !.installed = inst, !.model = m]
        /\ ret' = rerank(TheQuery,
                      fuse(keyword_results, semantic_results, graph_results),
                      top_k, inst, m)
    /\ UNCHANGED <<listVars, queryVars>>

\* RerankingService(use_cross_encoder).process_results(query, ..., final_k)
CallProcessResults ==
    /\ call.op = "none"
    /\ \E final_k \in FinalKs, use_cross_encoder \in BOOLEAN,
          inst \in BOOLEAN, m \in CEModels :
        /\ (use_cross_encoder /\ inst) \/ m = 1
        /\ use_cross_encoder \/ ~inst
        /\ call' = [NoCall EXCEPT !.op = "process_results",
                       !.final_k = final_k,
                       !.use_cross_encoder = use_cross_encoder,
                       !.installed = inst, !.model = m]
        /\ ret' = process_results(TheQuery, keyword_results, semantic_results,
                      graph_results, final_k, use_cross_encoder, inst, m)
    /\ UNCHANGED <<listVars, queryVars>>

NextFuse == CallFuse \/ CallRerank \/ CallProcessResults
SpecFuse == InitFuse /\ [][NextFuse]_vars

(* ============ SpecService: one RerankingService instance ============= *)
MaxCalls == 3        \* most process_results calls on the instance

\* (a model loaded anew by every call, and not the same one)
modelReloaded(service) == ((service.model + service.calls) % 3) + 1

\* CrossEncoderReranker.model: self._model once it is loaded, else the model
\* that CrossEncoder(self.model_name) loads
model(service) ==
    IF service.loaded # None THEN service.loaded ELSE service.model

ServiceFinalKs == {1, 2, DefaultFinalK}
\* RerankingService(use_cross_encoder): no call made, no model loaded
NoService ==
    [op |-> "none", final_k |-> None, use_cross_encoder |-> FALSE,
     installed |-> FALSE, model |-> 1, loaded |-> None, calls |-> 0]

InitService ==
    /\ pc = "service"
    /\ keyword_results \in SharedRankLists("keyword")
    /\ semantic_results \in SharedRankLists("semantic")
    /\ graph_results \in SharedRankLists("graph")
    /\ \E use_cross_encoder \in BOOLEAN, inst \in BOOLEAN, m \in CEModels :
        /\ (use_cross_encoder /\ inst) \/ m = 1
        /\ use_cross_encoder \/ ~inst
        /\ call = [NoService EXCEPT !.use_cross_encoder = use_cross_encoder,
                                    !.installed = inst, !.model = m]
    /\ ret = NoRet
    /\ log = {}
    /\ query = <<>>
    /\ expansions = None
    /\ installed = FALSE
    /\ document_ids = FALSE
    /\ user_id = FALSE
    /\ k_values = NoKValues
    /\ task = NoTasks
    /\ task_value = NoValues
    /\ lookups = 0
    /\ freshness_calls = NoCalls
    /\ given = None
    /\ NoConversation
    /\ NoPipeline
    /\ io = {}
    /\ search_results = NoResults
    /\ reranked_results = NoRet
    /\ error = NoError
    /\ raised = "none"

\* service.process_results(query, keyword_results, semantic_results,
\* graph_results, final_k) on the instance; log keeps what the earlier calls
\* were given and what they returned
ServiceProcessResults ==
    /\ pc = "service"
    /\ call.calls < MaxCalls
    /\ \E final_k \in ServiceFinalKs :
        LET fused_results ==
                fuse(keyword_results, semantic_results, graph_results)
            loads == call.use_cross_encoder /\ fused_results # <<>>
                        /\ call.installed
        IN  /\ ret' = process_results(TheQuery, keyword_results,
                          semantic_results, graph_results, final_k,
                          call.use_cross_encoder, call.installed, model(call))
            /\ call' = [call EXCEPT
                           !.op = "process_results", !.final_k = final_k,
                           !.calls = @ + 1,
                           !.loaded = IF loads THEN model(call) ELSE @]
    /\ log' = IF call.op = "none" THEN log
              ELSE log \cup {[final_k |-> call.final_k, inputs |-> AllLists,
                              ret |-> ret]}
    /\ UNCHANGED <<listVars, pc, requestVars, k_values, task, task_value,
                   lookups, freshness_calls, given,
                   historyVars, pipelineVars, io, search_results,
                   reranked_results, error, raised>>

NextService == ServiceProcessResults
SpecService == InitService /\ [][NextService]_vars

(* ================== SpecFresh: the FreshnessScorer ==================== *)
WhatIsABrand ==
    <<"w", "h", "a", "t", " ", "i", "s", " ", "a", " ", "b", "r", "a", "n", "d">>
LatestTravelTrends ==
    <<"l", "a", "t", "e", "s", "t", " ", "t", "r", "a", "v", "e", "l", " ", "t", "r", "e", "n", "d", "s", " ", "i", "n", " ", "2", "0", "2", "4">>
\* the two queries above, a keyword in upper case, a keyword inside another
\* word, and a query without one
FreshQueries ==
    {WhatIsABrand, LatestTravelTrends,
     <<"L", "a", "t", "e", "s", "t">>,
     <<"w", "e", "l", "l", " ", "k", "n", "o", "w", "n">>,
     <<"b", "r", "a", "n", "d">>}

\* configurations: the default and larger positive base weights
BaseWeights == {base_weight, 1000, 2000, 4000}
Configs == {[FreshnessConfig EXCEPT !.base_weight = w] : w \in BaseWeights}

\* datetimes in hours: two current times half a day apart, and documents
\* created from MaxFuture days after to MaxAge days before the first of them
Now == HoursPerDay * (MaxAge + 1)
CurrentTimes == {Now, Now + 11}
CreatedAts ==
    {Now - HoursPerDay * d - h : d \in (0 - MaxFuture)..MaxAge, h \in {0, 13}}

OriginalScores == {0 - 2000, 0 - 500, 0, 500, 1000, 3000}
BoostAges == {3, 30, 200, MaxAge}
NoFreshCall ==
    [op |-> "none", config |-> FreshnessConfig, created_at |-> None,
     current_time |-> None, original_score |-> 0,
     freshness_score |-> calculate_freshness_score(0)]

InitFresh ==
    /\ pc = "pure_fresh"
    /\ call = NoFreshCall
    /\ ret = NoRet
    /\ query = <<>>
    /\ expansions = None
    /\ k_values = NoKValues
    /\ keyword_results = <<>>
    /\ semantic_results = <<>>
    /\ graph_results = <<>>
    /\ installed = FALSE
    /\ document_ids = FALSE
    /\ user_id = FALSE
    /\ task = NoTasks
    /\ task_value = NoValues
    /\ log = {}
    /\ lookups = 0
    /\ freshness_calls = NoCalls
    /\ given = None
    /\ NoConversation
    /\ NoPipeline
    /\ io = {}
    /\ search_results = NoResults
    /\ reranked_results = NoRet
    /\ error = NoError
    /\ raised = "none"

\* FreshnessScorer(config).calculate_freshness_score(created_at, current_time)
CallCalculateFreshnessScore ==
    /\ pc = "pure_fresh"
    /\ call.op = "none"
    /\ \E config \in Configs, created_at \in CreatedAts,
          current_time \in CurrentTimes :
        /\ call' = [NoFreshCall EXCEPT
                       !.op = "calculate_freshness_score", !.config = config,
                       !.created_at = created_at,
                       !.current_time = current_time]
        /\ ret' = Returned(FreshnessScore(config,
                               age_days_of(created_at, current_time)), None)
    /\ UNCHANGED <<listVars, queryVars>>

\* default_freshness_scorer.is_temporal_query(query)
CallIsTemporalQuery ==
    /\ pc = "pure_fresh"
    /\ call.op = "none"
    /\ \E q \in FreshQueries :
        /\ query' = q
        /\ call' = [NoFreshCall EXCEPT !.op = "is_temporal_query"]
        /\ ret' = Returned(is_temporal_query(q), None)
    /\ UNCHANGED <<listVars, pc, expansions, installed, document_ids,
                   user_id, k_values, task, task_value, log, lookups,
                   freshness_calls, given,
                   historyVars, pipelineVars, io, search_results, reranked_results,
                   error, raised>>

\* default_freshness_scorer.apply_freshness_boost(original_score,
\*     freshness_score, query), freshness_score from calculate_freshness_score
CallApplyFreshnessBoost ==
    /\ pc = "pure_fresh"
    /\ call.op = "none"
    /\ \E original_score \in OriginalScores, age \in BoostAges,
          q \in FreshQueries :
        /\ query' = q
        /\ call' = [NoFreshCall EXCEPT
                       !.op = "apply_freshness_boost",
                       !.original_score = original_score,
                       !.freshness_score = calculate_freshness_score(age)]
        /\ ret' = Returned(apply_freshness_boost(original_score,
                               calculate_freshness_score(age), q), None)
    /\ UNCHANGED <<listVars, pc, expansions, installed, document_ids,
                   user_id, k_values, task, task_value, log, lookups,
                   freshness_calls, given,
                   historyVars, pipelineVars, io, search_results, reranked_results,
                   error, raised>>

NextFresh ==
    CallCalculateFreshnessScore \/ CallIsTemporalQuery
        \/ CallApplyFreshnessBoost
SpecFresh == InitFresh /\ [][NextFresh]_vars

(* ================= SpecK: calculate_k_values ========================== *)
\* a query of n words, the first of them a question word or not
RECURSIVE MakeQuery(_, _)
MakeQuery(n, question) ==
    IF n = 0 THEN <<>>
    ELSE IF n = 1
    THEN IF question THEN <<"w", "h", "a", "t">> ELSE <<"i", "t", "e", "m">>
    ELSE MakeQuery(n - 1, question) \o <<" ", "i", "t", "e", "m">>

\* the generated queries, one holding a question word inside another word and
\* one in upper case
KQueries ==
    {MakeQuery(n, question) : n \in 0..MaxWords, question \in BOOLEAN}
        \cup {<<"s", "h", "o", "w", "r", "o", "o", "m">>, <<"W", "h", "y">>}
\* no QueryExpansions object, or one with this many terms in its three lists
KExpansions == {None} \cup (0..MaxTerms)

InitK ==
    /\ pc = "pure_k"
    /\ query \in KQueries
    /\ expansions \in KExpansions
    /\ k_values = NoKValues
    /\ keyword_results = <<>>
    /\ semantic_results = <<>>
    /\ graph_results = <<>>
    /\ call = NoCall
    /\ ret = NoRet
    /\ installed = FALSE
    /\ document_ids = FALSE
    /\ user_id = FALSE
    /\ task = NoTasks
    /\ task_value = NoValues
    /\ log = {}
    /\ lookups = 0
    /\ freshness_calls = NoCalls
    /\ given = None
    /\ NoConversation
    /\ NoPipeline
    /\ io = {}
    /\ search_results = NoResults
    /\ reranked_results = NoRet
    /\ error = NoError
    /\ raised = "none"

\* AdaptiveTopKCalculator().calculate_k_values(query, expansions)
CallCalculateK ==
    /\ pc = "pure_k"
    /\ call.op = "none"
    /\ call' = [NoCall EXCEPT !.op = "calculate_k_values"]
    /\ k_values' = calculate_k_values(query, expansions)
    /\ UNCHANGED <<listVars, ret, pc, requestVars, task, task_value, log,
                   lookups, freshness_calls, given,
                   historyVars, pipelineVars, io, search_results,
                   reranked_results, error, raised>>

NextK == CallCalculateK
SpecK == InitK /\ [][NextK]_vars

(* ================= Spec: one process_query request ==================== *)
Queries == {
    <<"w", "h", "a", "t", " ", "i", "s", " ", "a", " ", "b", "r", "a", "n", "d">>,
    <<"l", "a", "t", "e", "s", "t", " ", "t", "r", "a", "v", "e", "l", " ", "t", "r", "e", "n", "d", "s", " ", "i", "n", " ", "2", "0", "2", "4">>,
    <<"b", "r", "a", "n", "d">>,
    <<" ">>,
    <<>>}
ExpansionCounts == {0, 8}
RowCounts == {0, 1, 2, MaxRows}
GraphRowCounts == {0, 1, MaxRows \div 2}

\* the documents table: name -> age in days of created_at
DocumentNames == {"doc_a", "doc_b"}
DocumentAge(name) == IF name = "doc_a" THEN 3 ELSE 400

(* ---- the rows the three indexes hold for the query, best first ---- *)
KeywordIds(n) == [p \in 1..n |-> p]
SemanticIds(n) == [p \in 1..n |-> IF p <= 2 THEN 3 - p ELSE MaxRows + p]
EntityIds(n) == [p \in 1..n |-> 2 * MaxRows + p]
RelationshipIds(n) == [p \in 1..n |-> 3 * MaxRows + p]
\* chunks of the requested documents: every row joins a documents row
DocumentsKeywordIds(n) ==
    [p \in 1..n |-> IF p <= 2 THEN p ELSE 4 * (MaxRows + p) + 1 + (p % 2)]

\* KeywordSearchStrategy.search when its query succeeds with n matching rows
KeywordSearch(limit, n) == InputList("keyword", KeywordIds(Min(limit, n)))
\* the attributes of a SimilarityResult
SimilarityResultFields ==
    {"content_type", "content_id", "similarity_score", "content_preview"}
\* the list comprehension over the n results of semantic_search: it reads
\* result.document_name of each of them, and reading an attribute the object
\* does not have raises AttributeError
SemanticConversion(limit, n) ==
    IF Min(limit, n) >= 1 /\ "document_name" \notin SimilarityResultFields
    THEN Raised("AttributeError")
    ELSE Returned(InputList("semantic", SemanticIds(Min(limit, n))), None)
\* SemanticSearchStrategy.search when semantic_search returns n results; its
\* except clause prints and returns [] for every exception
SemanticSearch(limit, n) ==
    LET converted == SemanticConversion(limit, n)
    IN  IF converted.raised # "none" THEN <<>> ELSE converted.value
\* GraphSearchStrategy.search: entity rows, then relationship rows
GraphSearch(limit, ne, nr) ==
    InputList("entity", EntityIds(Min(limit \div 2, ne)))
        \o InputList("relationship", RelationshipIds(Min(limit \div 2, nr)))
\* the keyword query of search_by_documents with n matching rows
DocumentsKeywordSearch(limit, n) ==
    InputList("keyword", DocumentsKeywordIds(Min(limit, n)))

\* what search() does when its backing store call raises: only the semantic
\* strategy has a try/except
SearchOnFailure(s) ==
    IF s = "semantic" THEN Returned(<<>>, None) ELSE Raised("PostgresError")

(* ---- SearchService._apply_freshness_scoring ---- *)
document_sources(results) ==
    {results[i].source : i \in 1..Len(results)} \ {"unknown"}
\* whether the call reaches the documents fetch
NeedsLookup(results) == results # <<>> /\ document_sources(results) # {}

\* (a stage that drops the results it has no timestamp for)
FreshnessBoostedDropping(results, q) ==
    SelectSeq(results, LAMBDA r : r.source \in DocumentNames)

\* the list returned when the fetch (if any) succeeds
FreshnessBoosted(results, q) ==
    IF ~NeedsLookup(results) THEN results
    ELSE LET doc_date_lookup == document_sources(results) \cap DocumentNames
         IN  [i \in 1..Len(results) |->
                LET result == results[i]
                    freshness_score ==
                        calculate_freshness_score(DocumentAge(result.source))
                IN  IF result.source \in doc_date_lookup
                    THEN SearchResult(result.id, result.content,
                            result.source,
                            apply_freshness_boost(result.score,
                                freshness_score, q),
                            [result.metadata EXCEPT
                                !.freshness_category =
                                    freshness_score.freshness_category,
                                !.age_days = freshness_score.age_days,
                                !.freshness_boost =
                                    freshness_score.boost_factor,
                                !.original_score = result.score])
                    ELSE result]

\* (a return that runs the lists through the freshness stage again)
SearchResultsReboosted(keyword, semantic, graph) ==
    [returned |-> TRUE,
     keyword_results |-> FreshnessBoosted(keyword, query),
     semantic_results |-> FreshnessBoosted(semantic, query),
     graph_results |-> FreshnessBoosted(graph, query),
     total_results |-> Len(keyword) + Len(semantic) + Len(graph)]

\* return SearchResults(query=..., keyword_results=..., ...)
SearchResults(keyword, semantic, graph) ==
    [returned |-> TRUE,
     keyword_results |-> keyword,
     semantic_results |-> semantic,
     graph_results |-> graph,
     total_results |-> Len(keyword) + Len(semantic) + Len(graph)]

(* ---- asyncio.gather(..., return_exceptions=True) and lines 247-252 ---- *)
Finished(t) == t \in {"done", "raised"}

\* (asyncio.wait(..., return_when=FIRST_COMPLETED))
GatherReadyAny(tasks) == \E s \in Strategies : Finished(tasks[s])

GatherReady(tasks) == \A s \in Strategies : Finished(tasks[s])

\* (gather without return_exceptions: the first exception propagates)
GatherPropagating(tasks, values) ==
    IF \E s \in Strategies : tasks[s] = "raised"
    THEN [raised |-> "PostgresError",
          origin |-> CHOOSE s \in Strategies : tasks[s] = "raised",
          value |-> values]
    ELSE [raised |-> "none", origin |-> "none", value |-> values]

\* a task that raised yields its exception, which lines 247-252 turn into []
Gather(tasks, values) ==
    [raised |-> "none", origin |-> "none",
     value |-> [s \in Strategies |->
                   IF tasks[s] = "raised" THEN <<>> ELSE values[s]]]

(* ---- process_query's handler, lines 202-212 ---- *)
\* the type of the exception the caller receives when e was caught
ExceptHandler(e) == "Exception"

Fail(e) ==
    /\ pc' = "failed"
    /\ error' = e
    /\ raised' = ExceptHandler(e)

\* the query-history I/O of a request with a user_id
HistoryRead == IF user_id THEN {"get_query_history"} ELSE {}
HistoryWrite == IF user_id THEN {"store_query_history"} ELSE {}
Issue(operations) == io' = io \cup operations

\* dict.get(key, default)
Get(value, default) == IF value = None THEN default ELSE value

InitQuery ==
    /\ pc = "request"
    /\ query \in Queries
    /\ expansions \in ExpansionCounts
    /\ installed \in BOOLEAN
    /\ document_ids \in BOOLEAN
    /\ user_id \in BOOLEAN
    /\ k_values = NoKValues
    /\ task = NoTasks
    /\ task_value = NoValues
    /\ log = {}
    /\ lookups = 0
    /\ freshness_calls = NoCalls
    /\ given = None
    /\ NoConversation
    /\ NoPipeline
    /\ io = {}
    /\ search_results = NoResults
    /\ reranked_results = NoRet
    /\ error = NoError
    /\ raised = "none"
    /\ keyword_results = <<>>
    /\ semantic_results = <<>>
    /\ graph_results = <<>>
    /\ call = NoCall
    /\ ret = NoRet

\* QueryProcessingRequest(query=...): the min_length=1 constraint of the field
\* k_values.get(key, default) as search_all calls it: a dict answers, an
\* int has no attribute get
KValuesGet(k, key, default) ==
    IF k \in Int THEN Raised("AttributeError")
    ELSE Returned(Get(k[key], default), None)

\* limits given to POST /queries/search (default 10) and by the component
\* test (3)
Limits == {0, 3, 10}

\* search_endpoint(query, limit): service.search_service.search_all(query,
\* limit) up to its first k_values.get; an exception becomes HTTP 500
SearchEndpoint ==
    /\ pc = "request"
    /\ \E limit \in Limits :
        /\ k_values' = limit
        /\ IF KValuesGet(limit, "keyword_k", 50).raised = "none"
           THEN /\ task' = [s \in Strategies |-> "pending"]
                /\ pc' = "gather"
                /\ Issue({"search"})
                /\ UNCHANGED <<error, raised>>
           ELSE /\ error' = [type |-> KValuesGet(limit, "keyword_k",
                                                 50).raised,
                             origin |-> "search_all"]
                /\ raised' = "HTTPException"
                /\ pc' = "search_failed"
                /\ UNCHANGED <<task, io>>
    /\ UNCHANGED <<listVars, fuseVars, requestVars, task_value, log, lookups,
                   freshness_calls, given,
                   historyVars, pipelineVars, search_results, reranked_results>>

Validate ==
    /\ pc = "request"
    /\ IF Len(query) >= 1
       THEN /\ pc' = "start"
            /\ UNCHANGED raised
       ELSE /\ pc' = "rejected"
            /\ raised' = "ValidationError"
    /\ UNCHANGED <<listVars, fuseVars, requestVars, k_values, task,
                   task_value, log, lookups, freshness_calls, given,
                   historyVars, pipelineVars, io,
                   search_results, reranked_results, error>>

\* process_query steps 1-7 for a user without recent history: history read,
\* expansion, k-values, decomposition (which rejects a blank query),
\* complexity analysis
Prepare ==
    /\ pc = "start"
    /\ k_values' = calculate_k_values(query, expansions)
    /\ IF IsBlank(query)
       THEN /\ Fail([type |-> "ValueError", origin |-> "decompose_query"])
            /\ Issue(HistoryRead \cup {"expand_query"} \cup HistoryWrite)
       ELSE /\ pc' = "search"
            /\ Issue(HistoryRead \cup {"expand_query"})
            /\ UNCHANGED <<error, raised>>
    /\ UNCHANGED <<listVars, fuseVars, requestVars, task, task_value, log,
                   lookups, freshness_calls, given,
                   historyVars, pipelineVars, search_results,
                   reranked_results>>

\* the expansion call of step 4 raises
PrepareFails ==
    /\ pc = "start"
    /\ Fail([type |-> "RuntimeError", origin |-> "prepare"])
    /\ Issue(HistoryRead \cup {"expand_query"} \cup HistoryWrite)
    /\ UNCHANGED <<listVars, fuseVars, requestVars, k_values, task,
                   task_value, log, lookups, freshness_calls, given,
                   historyVars, pipelineVars, search_results,
                   reranked_results>>

\* search_all up to the await of gather: the three tasks are created
CreateTasks ==
    /\ pc = "search"
    /\ ~document_ids
    /\ task' = [s \in Strategies |-> "pending"]
    /\ pc' = "gather"
    /\ Issue({"search"})
    /\ UNCHANGED <<listVars, fuseVars, requestVars, k_values, task_value, log,
                   lookups, freshness_calls, given,
                   historyVars, pipelineVars, search_results, reranked_results,
                   error, raised>>

StrategyRows(s) ==
    CASE s = "keyword" ->
            {KeywordSearch(k_values.keyword_k, n) : n \in RowCounts}
      [] s = "semantic" ->
            {SemanticSearch(k_values.semantic_k, n) : n \in RowCounts}
      [] OTHER ->
            {GraphSearch(k_values.graph_k, ne, nr) :
                ne \in GraphRowCounts, nr \in GraphRowCounts}

\* a strategy's search() runs to its return with the rows of its index
StrategyReturns(s) ==
    /\ pc = "gather"
    /\ task[s] = "pending"
    /\ IF s = "semantic"
       THEN \E n \in RowCounts :
               /\ task_value' = [task_value EXCEPT ![s] =
                                    SemanticSearch(k_values.semantic_k, n)]
               /\ given' = Min(k_values.semantic_k, n)
               /\ log' = IF SemanticConversion(k_values.semantic_k,
                                               n).raised # "none"
                         THEN log \cup {<<"Error in search", s>>}
                         ELSE log
       ELSE /\ \E rows \in StrategyRows(s) :
                  task_value' = [task_value EXCEPT ![s] = rows]
            /\ UNCHANGED <<log, given>>
    /\ task' = [task EXCEPT ![s] = "done"]
    /\ UNCHANGED <<listVars, fuseVars, pc, requestVars, k_values, lookups,
                   freshness_calls, historyVars, pipelineVars, io,
                   search_results, reranked_results, error, raised>>

\* a strategy's backing store call raises (timeout, query or connection error)
StrategyFails(s) ==
    /\ pc = "gather"
    /\ task[s] = "pending"
    /\ LET outcome == SearchOnFailure(s)
       IN  IF outcome.raised = "none"
           THEN /\ task' = [task EXCEPT ![s] = "done"]
                /\ task_value' = [task_value EXCEPT ![s] = outcome.value]
                /\ log' = log \cup {<<"Error in search", s>>}
           ELSE /\ task' = [task EXCEPT ![s] = "raised"]
                /\ UNCHANGED <<task_value, log>>
    /\ UNCHANGED <<listVars, fuseVars, pc, requestVars, k_values, lookups,
                   freshness_calls, given,
                   historyVars, pipelineVars, io, search_results, reranked_results,
                   error, raised>>

\* a strategy's call never completes (pool.acquire and the embedding call
\* have no timeout)
StrategyHangs(s) ==
    /\ pc = "gather"
    /\ task[s] = "pending"
    /\ task' = [task EXCEPT ![s] = "hung"]
    /\ UNCHANGED <<listVars, fuseVars, pc, requestVars, k_values, task_value,
                   log, lookups, freshness_calls, given,
                   historyVars, pipelineVars, io, search_results,
                   reranked_results, error, raised>>

\* the await of gather returns; exceptions become empty lists
GatherReturns ==
    /\ pc = "gather"
    /\ GatherReady(task)
    /\ LET g == Gather(task, task_value)
       IN  IF g.raised = "none"
           THEN /\ keyword_results' = g.value["keyword"]
                /\ semantic_results' = g.value["semantic"]
                /\ graph_results' = g.value["graph"]
                /\ pc' = "fresh_keyword"
                /\ UNCHANGED <<error, raised, io>>
           ELSE /\ Fail([type |-> g.raised, origin |-> g.origin])
                /\ Issue(HistoryWrite)
                /\ UNCHANGED listVars
    /\ UNCHANGED <<fuseVars, requestVars, k_values, task, task_value, log,
                   lookups, freshness_calls, given,
                   historyVars, pipelineVars, search_results,
                   reranked_results>>

FreshPcs == {"fresh_keyword", "fresh_semantic", "fresh_graph"}
DocumentsFreshPcs == {"documents_fresh_keyword", "documents_fresh_semantic"}
CurrentStrategy ==
    CASE pc \in {"fresh_keyword", "documents_fresh_keyword"} -> "keyword"
      [] pc \in {"fresh_semantic", "documents_fresh_semantic"} -> "semantic"
      [] OTHER -> "graph"
CurrentList ==
    CASE CurrentStrategy = "keyword" -> keyword_results
      [] CurrentStrategy = "semantic" -> semantic_results
      [] OTHER -> graph_results

\* one of the three awaits of _apply_freshness_scoring returns; after the
\* third, search_all returns its SearchResults
ApplyFreshness ==
    /\ pc \in FreshPcs
    /\ lookups' = IF NeedsLookup(CurrentList) THEN lookups + 1 ELSE lookups
    /\ freshness_calls' = [freshness_calls EXCEPT ![CurrentStrategy] = @ + 1]
    /\ UNCHANGED <<given, historyVars, pipelineVars>>
    /\ Issue(IF NeedsLookup(CurrentList) THEN {"fetch_documents"} ELSE {})
    /\ LET boosted == FreshnessBoosted(CurrentList, query)
       IN  CASE pc = "fresh_keyword" ->
                  /\ keyword_results' = boosted
                  /\ pc' = "fresh_semantic"
                  /\ UNCHANGED <<semantic_results, graph_results,
                                 search_results>>
             [] pc = "fresh_semantic" ->
                  /\ semantic_results' = boosted
                  /\ pc' = "fresh_graph"
                  /\ UNCHANGED <<keyword_results, graph_results,
                                 search_results>>
             [] OTHER ->
                  /\ graph_results' = boosted
                  /\ pc' = "rerank"
                  /\ search_results' =
                        SearchResults(keyword_results, semantic_results,
                            boosted)
                  /\ UNCHANGED <<keyword_results, semantic_results>>
    /\ UNCHANGED <<fuseVars, requestVars, k_values, task, task_value, log,
                   reranked_results, error, raised>>

\* the documents fetch of _apply_freshness_scoring raises
FreshnessLookupFails ==
    /\ pc \in FreshPcs
    /\ NeedsLookup(CurrentList)
    /\ lookups' = lookups + 1
    /\ freshness_calls' = [freshness_calls EXCEPT ![CurrentStrategy] = @ + 1]
    /\ UNCHANGED <<given, historyVars, pipelineVars>>
    /\ Fail([type |-> "PostgresError", origin |-> "freshness"])
    /\ Issue({"fetch_documents"} \cup HistoryWrite)
    /\ UNCHANGED <<listVars, fuseVars, requestVars, k_values, task,
                   task_value, log, search_results, reranked_results>>

(* ---- SearchService.search_by_documents ---- *)
\* the keyword fetch returns its rows
DocumentsKeywordReturns ==
    /\ pc = "search"
    /\ document_ids
    /\ \E n \in RowCounts :
          task_value' = [task_value EXCEPT
              !["keyword"] = DocumentsKeywordSearch(k_values.keyword_k, n)]
    /\ pc' = "documents_semantic"
    /\ Issue({"search"})
    /\ UNCHANGED <<listVars, fuseVars, requestVars, k_values, task, log,
                   lookups, freshness_calls, given,
                   historyVars, pipelineVars, search_results, reranked_results,
                   error, raised>>

\* the keyword fetch raises: nothing in search_by_documents catches it
DocumentsKeywordFails ==
    /\ pc = "search"
    /\ document_ids
    /\ Fail([type |-> "PostgresError", origin |-> "documents_keyword"])
    /\ Issue({"search"} \cup HistoryWrite)
    /\ UNCHANGED <<listVars, fuseVars, requestVars, k_values, task,
                   task_value, log, lookups, freshness_calls, given,
                   historyVars, pipelineVars, search_results,
                   reranked_results>>

\* the semantic search of lines 291-309 returns; the keyword rows are then
\* converted to SearchResults
DocumentsSemanticReturns ==
    /\ pc = "documents_semantic"
    /\ \E n \in RowCounts :
          LET rows == SemanticSearch(k_values.keyword_k, n)
          IN  /\ task_value' = [task_value EXCEPT !["semantic"] = rows]
              /\ semantic_results' = rows
              /\ given' = Min(k_values.keyword_k, n)
              /\ log' = IF SemanticConversion(k_values.keyword_k,
                                              n).raised # "none"
                        THEN log \cup {<<"Error in document-specific semantic search">>}
                        ELSE log
    /\ keyword_results' = task_value["keyword"]
    /\ pc' = "documents_fresh_keyword"
    /\ UNCHANGED <<graph_results, fuseVars, requestVars, k_values, task,
                   lookups, freshness_calls, historyVars, pipelineVars, io,
                   search_results, reranked_results, error, raised>>

\* the semantic search raises: lines 310-312 print and use an empty list
DocumentsSemanticFails ==
    /\ pc = "documents_semantic"
    /\ semantic_results' = <<>>
    /\ keyword_results' = task_value["keyword"]
    /\ log' = log \cup {<<"Error in document-specific semantic search">>}
    /\ pc' = "documents_fresh_keyword"
    /\ UNCHANGED <<graph_results, fuseVars, requestVars, k_values, task,
                   task_value, lookups, freshness_calls, given,
                   historyVars, pipelineVars, io, search_results,
                   reranked_results, error, raised>>

\* one of the two awaits of lines 326-327 returns; after the second,
\* search_by_documents returns its SearchResults
DocumentsApplyFreshness ==
    /\ pc \in DocumentsFreshPcs
    /\ lookups' = IF NeedsLookup(CurrentList) THEN lookups + 1 ELSE lookups
    /\ freshness_calls' = [freshness_calls EXCEPT ![CurrentStrategy] = @ + 1]
    /\ UNCHANGED <<given, historyVars, pipelineVars>>
    /\ Issue(IF NeedsLookup(CurrentList) THEN {"fetch_documents"} ELSE {})
    /\ LET boosted == FreshnessBoosted(CurrentList, query)
       IN  IF pc = "documents_fresh_keyword"
           THEN /\ keyword_results' = boosted
                /\ pc' = "documents_fresh_semantic"
                /\ UNCHANGED <<semantic_results, search_results>>
           ELSE /\ semantic_results' = boosted
                /\ pc' = "rerank"
                /\ search_results' =
                      SearchResults(keyword_results, boosted, <<>>)
                /\ UNCHANGED keyword_results
    /\ UNCHANGED <<graph_results, fuseVars, requestVars, k_values, task,
                   task_value, log, reranked_results, error, raised>>

\* the documents fetch raises during lines 326-327
DocumentsFreshnessLookupFails ==
    /\ pc \in DocumentsFreshPcs
    /\ NeedsLookup(CurrentList)
    /\ lookups' = lookups + 1
    /\ freshness_calls' = [freshness_calls EXCEPT ![CurrentStrategy] = @ + 1]
    /\ UNCHANGED <<given, historyVars, pipelineVars>>
    /\ Fail([type |-> "PostgresError", origin |-> "documents_freshness"])
    /\ Issue({"fetch_documents"} \cup HistoryWrite)
    /\ UNCHANGED <<listVars, fuseVars, requestVars, k_values, task,
                   task_value, log, search_results, reranked_results>>

\* process_query step 9: RerankingService().process_results(...)
Rerank ==
    /\ pc = "rerank"
    /\ \E m \in CEModels :
        LET r == process_results(query, search_results.keyword_results,
                     search_results.semantic_results,
                     search_results.graph_results,
                     Get(k_values.final_k, FallbackFinalK),
                     TRUE, installed, m)
        IN  IF r.raised = "none"
            THEN /\ reranked_results' = r
                 /\ pc' = "context"
                 /\ UNCHANGED <<error, raised, io>>
            ELSE /\ Fail([type |-> r.raised, origin |-> "rerank"])
                 /\ Issue(HistoryWrite)
                 /\ UNCHANGED reranked_results
    /\ UNCHANGED <<listVars, fuseVars, requestVars, k_values, task,
                   task_value, log, lookups, freshness_calls, given,
                   historyVars, pipelineVars, search_results>>

\* steps 10-15: context building, answer synthesis, history write, response
Finish ==
    /\ pc = "context"
    /\ pc' = "responded"
    /\ Issue(HistoryWrite)
    /\ UNCHANGED <<listVars, fuseVars, requestVars, k_values, task,
                   task_value, log, lookups, freshness_calls, given,
                   historyVars, pipelineVars, search_results,
                   reranked_results, error, raised>>

\* context building or answer synthesis raises
FinishFails ==
    /\ pc = "context"
    /\ Fail([type |-> "RuntimeError", origin |-> "synthesis"])
    /\ Issue(HistoryWrite)
    /\ UNCHANGED <<listVars, fuseVars, requestVars, k_values, task,
                   task_value, log, lookups, freshness_calls, given,
                   historyVars, pipelineVars, search_results,
                   reranked_results>>

Next ==
    \/ SearchEndpoint
    \/ Validate
    \/ Prepare
    \/ PrepareFails
    \/ CreateTasks
    \/ \E s \in Strategies : StrategyReturns(s)
    \/ \E s \in Strategies : StrategyFails(s)
    \/ \E s \in Strategies : StrategyHangs(s)
    \/ GatherReturns
    \/ ApplyFreshness
    \/ FreshnessLookupFails
    \/ DocumentsKeywordReturns
    \/ DocumentsKeywordFails
    \/ DocumentsSemanticReturns
    \/ DocumentsSemanticFails
    \/ DocumentsApplyFreshness
    \/ DocumentsFreshnessLookupFails
    \/ Rerank
    \/ Finish
    \/ FinishFails

Spec == InitQuery /\ [][Next]_vars
\* one request (the one-word query of an anonymous caller) under fairness:
\* the event loop runs every coroutine that can run, and every started
\* strategy call resolves one way or another (returns, fails or hangs).
\* Step 9 is synchronous code after the search has returned; no fairness is
\* assumed for it.
InitFair ==
    InitQuery /\ Len(query) = 5 /\ expansions = 0 /\ installed /\ ~user_id
FairSpec ==
    /\ InitFair /\ [][Next]_vars
    /\ WF_vars(Validate)
    /\ WF_vars(Prepare \/ PrepareFails)
    /\ WF_vars(CreateTasks)
    /\ \A s \in Strategies :
          WF_vars(StrategyReturns(s) \/ StrategyFails(s) \/ StrategyHangs(s))
    /\ WF_vars(GatherReturns)
    /\ WF_vars(ApplyFreshness \/ FreshnessLookupFails)
    /\ WF_vars(DocumentsKeywordReturns \/ DocumentsKeywordFails)
    /\ WF_vars(DocumentsSemanticReturns \/ DocumentsSemanticFails)
    /\ WF_vars(DocumentsApplyFreshness \/ DocumentsFreshnessLookupFails)
    /\ WF_vars(Finish \/ FinishFails)

(* --------------------- ConversationContextService --------------------- *)
\* ConversationContextService(): the defaults of the global instance
max_context_queries == 3
session_timeout_minutes == 30

\* the characters of the conversation texts in code point order
Alphabet ==
    <<" ", "(", ")", ",", ":", "E", "T", "a", "b", "c", "d", "e", "f", "g", "h", "i", "j", "k", "l", "m", "n",
      "o", "p", "q", "r", "s", "t", "u", "v", "w", "x", "y", "z">>
Ord(c) == CHOOSE i \in 1..Len(Alphabet) : Alphabet[i] = c

\* \w of the patterns; the texts hold no digit and no underscore
Letters == {Alphabet[i] : i \in 8..Len(Alphabet)}
IsWordChar(c) == Lower(c) \in Letters

\* a < b as Python orders two strings
RECURSIVE Before(_, _)
Before(a, b) ==
    IF a = <<>> THEN b # <<>>
    ELSE IF b = <<>> THEN FALSE
    ELSE IF a[1] = b[1] THEN Before(Tail(a), Tail(b))
    ELSE Ord(a[1]) < Ord(b[1])

\* sorted(list(set(...)))
RECURSIVE sorted(_)
sorted(S) ==
    IF S = {} THEN <<>>
    ELSE LET m == CHOOSE x \in S : \A y \in S \ {x} : Before(x, y)
         IN  <<m>> \o sorted(S \ {m})

\* results[:n]
Prefix(results, n) == SubSeq(results, 1, Min(n, Len(results)))

\* sep.join(texts)
RECURSIVE Join(_, _)
Join(texts, sep) ==
    IF texts = <<>> THEN <<>>
    ELSE IF Len(texts) = 1 THEN texts[1]
    ELSE texts[1] \o sep \o Join(Tail(texts), sep)

\* \b before position i, and the length of the word that starts there
WordStart(text, i) ==
    /\ i <= Len(text)
    /\ IsWordChar(text[i])
    /\ (i = 1 \/ ~IsWordChar(text[i - 1]))
RECURSIVE WordLen(_, _)
WordLen(text, i) ==
    IF i > Len(text) \/ ~IsWordChar(text[i]) THEN 0
    ELSE 1 + WordLen(text, i + 1)
WordAt(text, i) == SubSeq(text, i, i + WordLen(text, i) - 1)

\* an alternative of a \b(...)\b pattern matches at i, ignoring case
MatchesAt(text, i, word) ==
    /\ i + Len(word) - 1 <= Len(text)
    /\ (i = 1 \/ ~IsWordChar(text[i - 1]))
    /\ \A j \in 1..Len(word) : Lower(text[i + j - 1]) = word[j]
    /\ (i + Len(word) > Len(text) \/ ~IsWordChar(text[i + Len(word)]))

\* re.search(\b(words)\b, text, re.IGNORECASE)
Search(words, text) ==
    \E i \in 1..Len(text) :
        /\ WordStart(text, i)
        /\ \E word \in words : MatchesAt(text, i, word)

\* self.entity_patterns[0]
entity_keywords == {
    <<"t", "r", "a", "v", "e", "l">>,
    <<"t", "o", "u", "r", "i", "s", "m">>,
    <<"m", "o", "n", "e", "t", "i", "z", "a", "t", "i", "o", "n">>,
    <<"c", "o", "n", "t", "e", "n", "t">>,
    <<"c", "r", "e", "a", "t", "o", "r">>,
    <<"i", "n", "f", "l", "u", "e", "n", "c", "e", "r">>,
    <<"b", "r", "a", "n", "d">>,
    <<"s", "o", "c", "i", "a", "l", " ", "m", "e", "d", "i", "a">>,
    <<"p", "l", "a", "t", "f", "o", "r", "m">>,
    <<"s", "t", "r", "a", "t", "e", "g", "y">>,
    <<"a", "f", "f", "i", "l", "i", "a", "t", "e">>,
    <<"c", "o", "u", "r", "s", "e">>,
    <<"c", "o", "a", "c", "h", "i", "n", "g">>,
    <<"y", "o", "u", "t", "u", "b", "e">>,
    <<"i", "n", "s", "t", "a", "g", "r", "a", "m">>,
    <<"t", "i", "k", "t", "o", "k">>,
    <<"f", "a", "c", "e", "b", "o", "o", "k">>,
    <<"v", "i", "e", "t", "n", "a", "m", "e", "s", "e">>,
    <<"v", "i", "e", "t", "n", "a", "m">>}

\* the first position after i that holds no whitespace
RECURSIVE SkipSpaces(_, _)
SkipSpaces(text, i) ==
    IF i <= Len(text) /\ text[i] = " " THEN SkipSpaces(text, i + 1) ELSE i

\* where the match of self.entity_patterns[1] that starts at i ends: words of
\* two letters or more, with whitespace between them
RECURSIVE RunEnd(_, _)
RunEnd(text, i) ==
    LET e == i + WordLen(text, i) - 1
        j == SkipSpaces(text, e + 1)
    IN  IF j > e + 1 /\ WordStart(text, j) /\ WordLen(text, j) >= 2
        THEN RunEnd(text, j)
        ELSE e

\* re.findall(self.entity_patterns[1], text, re.IGNORECASE) from position i
\* on, each match lowered
RECURSIVE ProperNouns(_, _)
ProperNouns(text, i) ==
    IF i > Len(text) THEN {}
    ELSE IF WordStart(text, i) /\ WordLen(text, i) >= 2
         THEN {lower(SubSeq(text, i, RunEnd(text, i)))}
                  \cup ProperNouns(text, RunEnd(text, i) + 1)
         ELSE ProperNouns(text, i + 1)

\* the words _extract_entities filters out
common_words == {
    <<"t", "h", "e">>,
    <<"a", "n", "d">>,
    <<"f", "o", "r">>,
    <<"a", "r", "e">>,
    <<"c", "a", "n">>,
    <<"h", "a", "s">>,
    <<"h", "a", "d">>,
    <<"n", "o", "t">>,
    <<"u", "s", "e">>,
    <<"m", "a", "y">>,
    <<"n", "e", "w">>,
    <<"g", "e", "t">>,
    <<"s", "e", "e">>,
    <<"w", "a", "y">>,
    <<"n", "o", "w">>,
    <<"o", "w", "n">>,
    <<"s", "a", "y">>,
    <<"s", "h", "e">>,
    <<"h", "e", "r">>,
    <<"a", "l", "l">>,
    <<"a", "n", "y">>,
    <<"h", "o", "w">>,
    <<"m", "a", "n">>,
    <<"o", "l", "d">>,
    <<"t", "w", "o">>,
    <<"w", "h", "o">>,
    <<"b", "o", "y">>,
    <<"d", "i", "d">>,
    <<"i", "t", "s">>,
    <<"l", "e", "t">>,
    <<"p", "u", "t">>,
    <<"t", "o", "o">>}

_extract_entities(text) ==
    LET entities ==
            {k \in entity_keywords :
                \E i \in 1..Len(text) : MatchesAt(text, i, k)}
                \cup ProperNouns(text, 1)
        filtered_entities ==
            {entity \in entities :
                Len(entity) > 2 /\ entity \notin common_words}
    IN  Prefix(sorted(filtered_entities), 10)

topic_keywords == <<
    <<"m", "o", "n", "e", "t", "i", "z", "a", "t", "i", "o", "n">>,
    <<"c", "o", "n", "t", "e", "n", "t">>,
    <<"c", "r", "e", "a", "t", "o", "r">>,
    <<"t", "r", "a", "v", "e", "l">>,
    <<"s", "o", "c", "i", "a", "l", " ", "m", "e", "d", "i", "a">>,
    <<"s", "t", "r", "a", "t", "e", "g", "y">>,
    <<"a", "f", "f", "i", "l", "i", "a", "t", "e">>,
    <<"m", "a", "r", "k", "e", "t", "i", "n", "g">>,
    <<"y", "o", "u", "t", "u", "b", "e">>,
    <<"i", "n", "s", "t", "a", "g", "r", "a", "m">>,
    <<"p", "l", "a", "t", "f", "o", "r", "m">>,
    <<"a", "u", "d", "i", "e", "n", "c", "e">>,
    <<"b", "r", "a", "n", "d">>,
    <<"i", "n", "f", "l", "u", "e", "n", "c", "e", "r">>,
    <<"c", "o", "a", "c", "h", "i", "n", "g">>,
    <<"c", "o", "u", "r", "s", "e">>,
    <<"v", "i", "e", "t", "n", "a", "m", "e", "s", "e">>,
    <<"t", "r", "e", "n", "d", "s">>>>

_extract_key_topics(text) ==
    LET text_lower == lower(text)
        InText(topic) == Contains(text_lower, topic)
    IN  Prefix(SelectSeq(topic_keywords, InText), 5)

\* ConversationContext(); session_duration and context_summary only go to
\* the response metadata
NoContext ==
    [recent_queries |-> <<>>, recent_responses |-> <<>>,
     extracted_entities |-> <<>>, key_topics |-> <<>>]

\* extract_context_from_history(qhistory) at time now
extract_context_from_history(history, now) ==
    LET Recent(q) == q.created_at >= now - session_timeout_minutes
        recent_history ==
            Prefix(SelectSeq(history, Recent), max_context_queries)
        recent_queries ==
            [i \in 1..Len(recent_history) |-> recent_history[i].query_text]
        recent_responses ==
            [i \in 1..Len(recent_history) |-> recent_history[i].response_text]
        all_text == Join(recent_queries \o recent_responses, <<" ">>)
    IN  IF recent_history = <<>> THEN NoContext
        ELSE [recent_queries |-> recent_queries,
              recent_responses |-> recent_responses,
              extracted_entities |-> _extract_entities(all_text),
              key_topics |-> _extract_key_topics(all_text)]

\* self.reference_patterns
they_words == {<<"t", "h", "e", "y">>, <<"t", "h", "e", "m">>, <<"t", "h", "e", "i", "r">>, <<"t", "h", "e", "i", "r", "s">>}
it_words == {<<"i", "t">>, <<"i", "t", "s">>}
this_words == {<<"t", "h", "i", "s">>, <<"t", "h", "e", "s", "e">>, <<"t", "h", "a", "t">>, <<"t", "h", "o", "s", "e">>}
approach_words == {<<"a", "p", "p", "r", "o", "a", "c", "h">>, <<"s", "t", "r", "a", "t", "e", "g", "y">>, <<"m", "e", "t", "h", "o", "d">>, <<"t", "e", "c", "h", "n", "i", "q", "u", "e">>, <<"w", "a", "y">>}
approach_targets == {<<"a", "p", "p", "r", "o", "a", "c", "h">>, <<"s", "t", "r", "a", "t", "e", "g", "y">>, <<"m", "e", "t", "h", "o", "d">>}

\* re.sub(self.reference_patterns['they'], replacement, text) from i on
RECURSIVE SubThey(_, _, _)
SubThey(text, i, replacement) ==
    IF i > Len(text) THEN <<>>
    ELSE IF WordStart(text, i) /\ lower(WordAt(text, i)) \in they_words
         THEN replacement
                  \o SubThey(text, i + WordLen(text, i), replacement)
         ELSE <<text[i]>> \o SubThey(text, i + 1, replacement)

\* re.sub(r'\bthis\s+(approach|strategy|method)\b', topic + " \1", text) from
\* i on
RECURSIVE SubThis(_, _, _)
SubThis(text, i, topic) ==
    IF i > Len(text) THEN <<>>
    ELSE LET j == SkipSpaces(text, i + 4)
         IN  IF /\ MatchesAt(text, i, <<"t", "h", "i", "s">>)
                /\ j > i + 4
                /\ WordStart(text, j)
                /\ lower(WordAt(text, j)) \in approach_targets
             THEN topic \o <<" ">> \o WordAt(text, j)
                      \o SubThis(text, j + WordLen(text, j), topic)
             ELSE <<text[i]>> \o SubThis(text, i + 1, topic)

_resolve_references(q, context) ==
    LET InReferents(entity) == entity \in {<<"t", "r", "a", "v", "e", "l">>, <<"c", "r", "e", "a", "t", "o", "r">>, <<"c", "o", "n", "t", "e", "n", "t">>, <<"i", "n", "f", "l", "u", "e", "n", "c", "e", "r">>, <<"v", "i", "e", "t", "n", "a", "m", "e", "s", "e">>}
        likely_referents == SelectSeq(context.extracted_entities, InReferents)
        resolved_they ==
            IF Search(they_words, q) /\ likely_referents # <<>>
            THEN SubThey(q, 1, likely_referents[1] \o <<"s">>)
            ELSE q
        InTopics(t) == t \in {<<"m", "o", "n", "e", "t", "i", "z", "a", "t", "i", "o", "n">>, <<"m", "a", "r", "k", "e", "t", "i", "n", "g">>, <<"c", "o", "n", "t", "e", "n", "t">>}
        topic_context == SelectSeq(context.key_topics, InTopics)
    IN  IF context.recent_queries = <<>> \/ context.extracted_entities = <<>>
        THEN q
        ELSE IF Search(approach_words, q) /\ topic_context # <<>>
             THEN SubThis(resolved_they, 1, topic_context[1])
             ELSE resolved_they

_has_references(q) ==
    \/ Search(they_words, q)
    \/ Search(it_words, q)
    \/ Search(this_words, q)
    \/ Search(approach_words, q)

_get_relevant_entities(q, context) ==
    LET query_lower == lower(q)
        Relevant(entity) ==
            \/ Contains(query_lower, entity)
            \/ \E i \in 1..Len(context.key_topics) :
                  Contains(entity, context.key_topics[i])
            \/ entity \in {<<"t", "r", "a", "v", "e", "l">>, <<"c", "r", "e", "a", "t", "o", "r">>, <<"c", "o", "n", "t", "e", "n", "t">>, <<"v", "i", "e", "t", "n", "a", "m", "e", "s", "e">>, <<"m", "o", "n", "e", "t", "i", "z", "a", "t", "i", "o", "n">>}
    IN  Prefix(SelectSeq(context.extracted_entities, Relevant), 3)

\* expand_query_with_context(current_query, context)
expand_query_with_context(current_query, context) ==
    LET expanded_query == _resolve_references(current_query, context)
        relevant_entities == _get_relevant_entities(expanded_query, context)
    IN  IF context.recent_queries = <<>> THEN current_query
        ELSE IF (WordCount(current_query) < 5
                     \/ _has_references(current_query))
                /\ relevant_entities # <<>>
             THEN expanded_query \o <<" ", "(", "c", "o", "n", "t", "e", "x", "t", ":", " ">>
                      \o Join(relevant_entities, <<",", " ">>) \o <<")">>
             ELSE expanded_query

(* ============ SpecHistory: the requests of one conversation =========== *)
MaxRequests == 2     \* most requests of the user in one behaviour
MaxTicks == 1        \* most advances of the clock in one behaviour

\* minutes that pass when the user pauses: longer than the session timeout
TickMinutes == 40

\* what the user types, what the language model answers, and str(e)
UserQueries == {
    <<"T", "r", "a", "v", "e", "l", " ", "t", "i", "p", "s">>,
    <<"w", "h", "a", "t", " ", "a", "b", "o", "u", "t", " ", "i", "t">>,
    <<"h", "o", "w", " ", "d", "o", " ", "t", "h", "e", "y", " ", "e", "a", "r", "n">>,
    <<"i", "s", " ", "t", "h", "i", "s", " ", "s", "t", "r", "a", "t", "e", "g", "y", " ", "g", "o", "o", "d">>}
Answers == {<<"c", "o", "n", "t", "e", "n", "t", " ", "h", "e", "l", "p", "s">>}
ErrorText == <<"E", "r", "r", "o", "r", ":", " ", "t", "i", "m", "e", "o", "u", "t">>

historyIdle == <<listVars, expansions, installed, document_ids, user_id,
                 k_values, task, task_value, lookups, freshness_calls, given,
                 pipelineVars, io, search_results, reranked_results, error,
                 raised>>

NoRequest == [original_query |-> <<>>, conversation_context |-> NoContext]

InitHistory ==
    /\ pc = "idle"
    /\ call = NoRequest
    /\ ret = NoRet
    /\ query = <<>>
    /\ expansions = None
    /\ k_values = NoKValues
    /\ keyword_results = <<>>
    /\ semantic_results = <<>>
    /\ graph_results = <<>>
    /\ installed = FALSE
    /\ document_ids = FALSE
    /\ user_id = TRUE
    /\ task = NoTasks
    /\ task_value = NoValues
    /\ log = <<>>
    /\ lookups = 0
    /\ freshness_calls = NoCalls
    /\ given = None
    /\ NoConversation
    /\ NoPipeline
    /\ io = {}
    /\ search_results = NoResults
    /\ reranked_results = NoRet
    /\ error = NoError
    /\ raised = "none"

\* the user submits a query: process_query(request) is called; log keeps
\* what was submitted, latest first
Submit ==
    /\ pc = "idle"
    /\ Len(query_history) < MaxRequests
    /\ \E q \in UserQueries :
        /\ query' = q
        /\ log' = <<q>> \o log
    /\ call' = NoRequest
    /\ ret' = NoRet
    /\ pc' = "context"
    /\ UNCHANGED <<historyIdle, historyVars>>

\* get_query_history(user_id, limit): the latest rows first
get_query_history(limit) == Prefix(query_history, limit)

\* step 1: get_query_history(request.user_id, limit=5) and
\* extract_context_from_history
GetContext ==
    /\ pc = "context"
    /\ call' = [call EXCEPT !.conversation_context =
                   IF user_id
                   THEN extract_context_from_history(get_query_history(5),
                                                     clock)
                   ELSE NoContext]
    /\ pc' = "expand"
    /\ UNCHANGED <<historyIdle, historyVars, query, ret, log>>

\* step 2: original_query = request.query; request.query = expanded_query
ExpandWithContext ==
    /\ pc = "expand"
    /\ call' = [call EXCEPT !.original_query = query]
    /\ query' = IF call.conversation_context.recent_queries # <<>>
                THEN expand_query_with_context(query,
                                               call.conversation_context)
                ELSE query
    /\ pc' = "process"
    /\ UNCHANGED <<historyIdle, historyVars, ret, log>>

\* steps 3 to 14 end with an answer
Answer ==
    /\ pc = "process"
    /\ \E answer \in Answers :
          ret' = Returned([query |-> call.original_query, answer |-> answer],
                          None)
    /\ pc' = "store"
    /\ UNCHANGED <<historyIdle, historyVars, query, call, log>>

\* one of the steps 3 to 14 raises
ProcessingFails ==
    /\ pc = "process"
    /\ ret' = Raised("Exception")
    /\ pc' = "store"
    /\ UNCHANGED <<historyIdle, historyVars, query, call, log>>

\* _store_query_history(query_id, request, response, metadata), called at
\* step 15 with the answer and by the handler with the error text
StoreQueryHistory ==
    /\ pc = "store"
    /\ IF user_id
       THEN query_history' =
                <<[query_text |-> query,
                   response_text |-> IF ret.raised = "none"
                                     THEN ret.value.answer ELSE ErrorText,
                   created_at |-> clock]>> \o query_history
       ELSE UNCHANGED query_history
    /\ pc' = "idle"
    /\ UNCHANGED <<historyIdle, clock, query, call, ret, log>>

\* the user pauses between two requests
Tick ==
    /\ pc = "idle"
    /\ clock < MaxTicks * TickMinutes
    /\ clock' = clock + TickMinutes
    /\ UNCHANGED <<historyIdle, query_history, pc, query, call, ret, log>>

NextHistory ==
    \/ Submit
    \/ GetContext
    \/ ExpandWithContext
    \/ Answer
    \/ ProcessingFails
    \/ StoreQueryHistory
    \/ Tick
SpecHistory == InitHistory /\ [][NextHistory]_vars

(* ============ SpecPipeline: the ingestion pipeline executions ========= *)
MaxExecutions == 1   \* most executions start_pipeline creates in one behaviour

\* _execute_stage_logic: polls of the document before the wait gives up
max_retries == 30

\* PipelineStage, in the order in which _execute_pipeline runs the stages
PipelineStages ==
    <<"document_processing", "chunking", "embedding_generation",
      "entity_extraction", "relationship_extraction", "graph_construction">>
StageNames == {PipelineStages[i] : i \in 1..Len(PipelineStages)}
StageIndex(stage) ==
    CHOOSE i \in 1..Len(PipelineStages) : PipelineStages[i] = stage

\* PipelineExecution(...) as start_pipeline builds it, with the position of
\* its _execute_pipeline coroutine and the retry_count of the document wait
PipelineExecution ==
    [status |-> "pending", current_stage |-> "none",
     stages |-> [stage \in StageNames |-> "pending"],
     failed_stage |-> "none", retry_count |-> 0, at |-> "created"]

\* _execute_stage up to its first await: lines 186 to 193
EnterStage(execution, stage) ==
    [execution EXCEPT !.current_stage = stage, !.stages[stage] = "running",
                      !.at = "save_running"]

\* the handler of _execute_pipeline up to its await: lines 143 to 160
PipelineExcept(execution) ==
    LET current_stage == execution.current_stage
    IN  IF current_stage # "none"
        THEN [execution EXCEPT !.status = "failed",
                               !.failed_stage = current_stage,
                               !.stages[current_stage] = "failed",
                               !.at = "save_failed"]
        ELSE [execution EXCEPT !.status = "failed", !.at = "save_failed"]

\* _execute_stage returns: the next stage is entered, or lines 122 to 134
\* mark the execution completed
StageReturns(execution) ==
    LET i == StageIndex(execution.current_stage)
    IN  IF i < Len(PipelineStages)
        THEN EnterStage(execution, PipelineStages[i + 1])
        ELSE [execution EXCEPT !.status = "completed",
                               !.current_stage = "none",
                               !.at = "save_completed"]

\* (a stage whose failure is not raised to _execute_pipeline)
StageRaisesSwallowed(execution) == StageReturns(execution)

\* _execute_stage raises PipelineError, or the exception of its save, into
\* _execute_pipeline
StageRaises(execution) == PipelineExcept(execution)

\* the logic of the stage returned: lines 202 to 219
StageCompleted(execution) ==
    [execution EXCEPT !.stages[execution.current_stage] = "completed",
                      !.at = "save_stage_completed"]

\* the logic of the stage raised: lines 227 to 234
StageFailed(execution) ==
    [execution EXCEPT !.stages[execution.current_stage] = "failed",
                      !.at = "save_stage_failed"]

pipelineIdle == <<listVars, fuseVars, pc, requestVars, k_values, task,
                  task_value, log, lookups, freshness_calls, given,
                  historyVars, io, search_results, reranked_results, error,
                  raised>>

InitPipeline ==
    /\ pc = "pipeline"
    /\ call = NoCall
    /\ ret = NoRet
    /\ query = <<>>
    /\ expansions = None
    /\ k_values = NoKValues
    /\ keyword_results = <<>>
    /\ semantic_results = <<>>
    /\ graph_results = <<>>
    /\ installed = FALSE
    /\ document_ids = FALSE
    /\ user_id = FALSE
    /\ task = NoTasks
    /\ task_value = NoValues
    /\ log = {}
    /\ lookups = 0
    /\ freshness_calls = NoCalls
    /\ given = None
    /\ NoConversation
    /\ NoPipeline
    /\ io = {}
    /\ search_results = NoResults
    /\ reranked_results = NoRet
    /\ error = NoError
    /\ raised = "none"

ExecutionIds == 1..MaxExecutions
At(id, position) == id <= Len(executions) /\ executions[id].at = position
Becomes(id, execution) ==
    executions' = [executions EXCEPT ![id] = execution]

\* start_pipeline(document_id, project_id): the execution is saved, stored
\* in active_executions and its task is created
StartPipeline ==
    /\ Len(executions) < MaxExecutions
    /\ executions' = Append(executions, PipelineExecution)
    /\ active_executions' = active_executions \cup {Len(executions) + 1}
    /\ UNCHANGED pipelineIdle

\* the task starts: lines 111 and 112
ExecutePipeline(id) ==
    /\ At(id, "created")
    /\ Becomes(id, [executions[id] EXCEPT !.status = "running",
                                          !.at = "save_started"])
    /\ UNCHANGED <<pipelineIdle, active_executions>>

\* the save of line 112 returns: the first stage is entered
FirstStage(id) ==
    /\ At(id, "save_started")
    /\ Becomes(id, EnterStage(executions[id], PipelineStages[1]))
    /\ UNCHANGED <<pipelineIdle, active_executions>>

\* the save of line 112 or of line 193 raises, outside the try of
\* _execute_stage
SaveRaises(id) ==
    /\ At(id, "save_started") \/ At(id, "save_running")
    /\ Becomes(id, PipelineExcept(executions[id]))
    /\ UNCHANGED <<pipelineIdle, active_executions>>

\* the save of line 193 returns: _execute_stage_logic starts
StageLogicStarts(id) ==
    /\ At(id, "save_running")
    /\ Becomes(id, [executions[id] EXCEPT
                       !.retry_count = 0,
                       !.at = IF executions[id].current_stage
                                     = "document_processing"
                              THEN "poll" ELSE "logic"])
    /\ UNCHANGED <<pipelineIdle, active_executions>>

\* get_document returns a document with content: the wait ends
PollFindsContent(id) ==
    /\ At(id, "poll")
    /\ Becomes(id, StageCompleted(executions[id]))
    /\ UNCHANGED <<pipelineIdle, active_executions>>

\* get_document returns no content or raises: sleep, and after max_retries
\* polls PipelineError
PollWaits(id) ==
    /\ At(id, "poll")
    /\ LET retry_count == executions[id].retry_count + 1
           waited == [executions[id] EXCEPT !.retry_count = retry_count]
       IN  Becomes(id, IF retry_count < max_retries THEN waited
                       ELSE StageFailed(waited))
    /\ UNCHANGED <<pipelineIdle, active_executions>>

\* the service call of the stage returns; graph_construction does nothing
StageLogicReturns(id) ==
    /\ At(id, "logic")
    /\ Becomes(id, StageCompleted(executions[id]))
    /\ UNCHANGED <<pipelineIdle, active_executions>>

\* the service call of the stage raises
StageLogicRaises(id) ==
    /\ At(id, "logic")
    /\ executions[id].current_stage # "graph_construction"
    /\ Becomes(id, StageFailed(executions[id]))
    /\ UNCHANGED <<pipelineIdle, active_executions>>

\* the save of line 219 returns: _execute_stage returns
StageSaved(id) ==
    /\ At(id, "save_stage_completed")
    /\ Becomes(id, StageReturns(executions[id]))
    /\ UNCHANGED <<pipelineIdle, active_executions>>

\* the save of line 219 raises inside the try: the stage is marked failed
StageSaveRaises(id) ==
    /\ At(id, "save_stage_completed")
    /\ Becomes(id, StageFailed(executions[id]))
    /\ UNCHANGED <<pipelineIdle, active_executions>>

\* the save of line 234 returns or raises: _execute_stage raises
StageFailureRaised(id) ==
    /\ At(id, "save_stage_failed")
    /\ Becomes(id, StageRaises(executions[id]))
    /\ UNCHANGED <<pipelineIdle, active_executions>>

\* the save of line 134 raises after the execution was marked completed
CompletedSaveRaises(id) ==
    /\ At(id, "save_completed")
    /\ Becomes(id, PipelineExcept(executions[id]))
    /\ UNCHANGED <<pipelineIdle, active_executions>>

\* the save of line 134 returns, or that of line 160 returns or raises: the
\* finally clause removes the execution
Finally(id) ==
    /\ At(id, "save_completed") \/ At(id, "save_failed")
    /\ Becomes(id, [executions[id] EXCEPT !.at = "done"])
    /\ active_executions' = active_executions \ {id}
    /\ UNCHANGED pipelineIdle

\* the steps of the task of one execution
Runs(id) ==
    \/ ExecutePipeline(id)
    \/ FirstStage(id)
    \/ SaveRaises(id)
    \/ StageLogicStarts(id)
    \/ PollFindsContent(id)
    \/ PollWaits(id)
    \/ StageLogicReturns(id)
    \/ StageLogicRaises(id)
    \/ StageSaved(id)
    \/ StageSaveRaises(id)
    \/ StageFailureRaised(id)
    \/ CompletedSaveRaises(id)
    \/ Finally(id)

NextPipeline ==
    \/ StartPipeline
    \/ \E id \in ExecutionIds : Runs(id)
SpecPipeline == InitPipeline /\ [][NextPipeline]_vars

\* every await of a task returns or raises, so a task that can take a step
\* takes one
FairPipeline ==
    SpecPipeline /\ \A id \in ExecutionIds : WF_vars(Runs(id))

(* ======================= properties of SpecFuse ======================= *)
AllInputs == <<keyword_results, semantic_results, graph_results>>
ResultIds(results) == {results[i].id : i \in 1..Len(results)}
InputIds == ResultIds(keyword_results) \cup ResultIds(semantic_results)
                \cup ResultIds(graph_results)
\* ids standing in more than one of the three lists
SharedIds ==
    (ResultIds(keyword_results) \cap ResultIds(semantic_results))
    \cup (ResultIds(keyword_results) \cap ResultIds(graph_results))
    \cup (ResultIds(semantic_results) \cap ResultIds(graph_results))
FusedNow == fuse(keyword_results, semantic_results, graph_results)

\* sum of 1/(60+r) over the ranks r <= n at which id stands in results
RECURSIVE RankSum(_, _, _)
RankSum(results, id, n) ==
    IF n = 0 THEN 0
    ELSE RankSum(results, id, n - 1) +
         (IF results[n].id = id THEN RRFScale \div (60 + n) ELSE 0)

ExpectedRRF(id) ==
    RankSum(keyword_results, id, Len(keyword_results)) +
    RankSum(semantic_results, id, Len(semantic_results)) +
    RankSum(graph_results, id, Len(graph_results))

IdsOf(results) == [i \in 1..Len(results) |-> results[i].id]
OrderedDesc(results) ==
    \A i, j \in 1..Len(results) : i < j => results[i].score >= results[j].score

\* C1: fuse returns exactly one result per distinct id of the three input
\* lists; its score (and metadata.rrf_score) is the sum of 1/(60+r) over every
\* appearance of the id at 1-based rank r; the output is ordered by that score
\* descending; three empty lists give an empty output.
C1_FuseScores ==
    call.op = "fuse" =>
        /\ ret.raised = "none"
        /\ ResultIds(ret.value) = InputIds
        /\ Len(ret.value) = Cardinality(InputIds)
        /\ \A i \in 1..Len(ret.value) :
              /\ ret.value[i].score = ExpectedRRF(ret.value[i].id)
              /\ ret.value[i].metadata.rrf_score = ExpectedRRF(ret.value[i].id)
        /\ OrderedDesc(ret.value)
        /\ (AllInputs = <<<<>>, <<>>, <<>>>> => ret.value = <<>>)

\* an id standing in two lists was fused, and the fused order differs from
\* the order of first appearance
C1_Witness ==
    /\ call.op = "fuse"
    /\ IdsOf(keyword_results) = <<1, 2>>
    /\ IdsOf(semantic_results) = <<2>>
    /\ IdsOf(graph_results) = <<>>
    /\ IdsOf(ret.value) = <<2, 1>>
    /\ ret.value[1].score = RRFScale \div 62 + RRFScale \div 61

\* C2: with the cross-encoder disabled process_results returns exactly the
\* first final_k elements of the fused list, so min(final_k, distinct ids)
\* results; keyword=[a], semantic=[b, a], graph=[] and final_k=1 yields [a].
C2_DisabledIsFusePrefix ==
    (call.op = "process_results" /\ ~call.use_cross_encoder) =>
        /\ ret.raised = "none"
        /\ Len(ret.value) = Min(call.final_k, Cardinality(InputIds))
        /\ \A i \in 1..Len(ret.value) : ret.value[i] = FusedNow[i]
        /\ (/\ IdsOf(keyword_results) = <<1>>
            /\ IdsOf(semantic_results) = <<2, 1>>
            /\ IdsOf(graph_results) = <<>>)
           => IdsOf(ret.value) = SubSeq(<<1, 2>>, 1, Min(call.final_k, 2))

C2_Witness ==
    /\ call.op = "process_results"
    /\ ~call.use_cross_encoder
    /\ call.final_k = 1
    /\ IdsOf(keyword_results) = <<1>>
    /\ IdsOf(semantic_results) = <<2, 1>>
    /\ IdsOf(graph_results) = <<>>
    /\ IdsOf(ret.value) = <<1>>

\* the first result with this id in keyword, then semantic, then graph order
FirstAppearance(id) ==
    LET all == keyword_results \o semantic_results \o graph_results
        p == CHOOSE q \in 1..Len(all) :
                /\ all[q].id = id
                /\ \A r \in 1..(q - 1) : all[r].id # id
    IN  all[p]

\* C4: for an id in more than one list, the fused result's content, source
\* and metadata.original_score are those of the id's first appearance in list
\* order (keyword, then semantic, then graph).
C4_FirstAppearanceCarried ==
    call.op = "fuse" =>
        \A i \in {j \in 1..Len(ret.value) : ret.value[j].id \in SharedIds} :
            LET first == FirstAppearance(ret.value[i].id)
            IN  /\ ret.value[i].content = first.content
                /\ ret.value[i].source = first.source
                /\ ret.value[i].metadata.original_score = first.score

\* number of times id stands in results
RECURSIVE Count(_, _)
Count(results, id) ==
    IF results = <<>> THEN 0
    ELSE Count(Tail(results), id) + (IF Head(results).id = id THEN 1 ELSE 0)

\* C6: rerank scores only the first top_k candidates and returns exactly
\* those (same multiset of ids, length min(len(candidates), top_k)) ordered
\* by cross-encoder score descending; with the stage enabled the pipeline
\* output never has more than its top_k (25) results whatever final_k is.
C6_RerankTopK ==
    /\ (call.op = "rerank" /\ call.installed) =>
          LET n == Min(Len(FusedNow), call.top_k)
              sent == SubSeq(FusedNow, 1, n)
          IN  /\ ret.raised = "none"
              /\ Len(ret.value) = n
              /\ (FusedNow # <<>> => ret.sent = n)
              /\ \A id \in InputIds : Count(ret.value, id) = Count(sent, id)
              /\ \A i \in 1..Len(ret.value) :
                    /\ ret.value[i].score =
                          predict(call.model, TheQuery, ret.value[i].content)
                    /\ ret.value[i].metadata.cross_encoder_score =
                          ret.value[i].score
              /\ OrderedDesc(ret.value)
    /\ (call.op = "process_results" /\ call.use_cross_encoder
            /\ ret.raised = "none") =>
          /\ Len(ret.value) <= 25
          /\ ret.sent <= 25

\* more candidates than top_k: the later ones are dropped and the kept ones
\* come back in a different order
C6_Witness ==
    /\ call.op = "rerank"
    /\ call.installed
    /\ call.top_k = 2
    /\ Len(FusedNow) > 2
    /\ Len(ret.value) = 2
    /\ IdsOf(ret.value) # IdsOf(SubSeq(FusedNow, 1, 2))

(* ========================= properties of Spec ========================= *)
\* search_all has returned its SearchResults
SearchAllReturned == ~document_ids /\ search_results.returned
\* search_all has ended by raising into process_query's handler
SearchAllRaised ==
    pc = "failed" /\ error.origin \in Strategies \cup {"freshness"}
Returned_(s) ==
    CASE s = "keyword" -> search_results.keyword_results
      [] s = "semantic" -> search_results.semantic_results
      [] OTHER -> search_results.graph_results
\* same results in the same order, whatever the freshness stage did to scores
SameRows(a, b) ==
    /\ Len(a) = Len(b)
    /\ \A i \in 1..Len(a) :
          /\ a[i].id = b[i].id
          /\ a[i].content = b[i].content
          /\ a[i].source = b[i].source
          /\ a[i].metadata.type = b[i].metadata.type

\* C3: when a strategy call of search_all raises, that strategy contributes
\* an empty list, the other strategies' results are returned as their calls
\* produced them, the strategy's exception never leaves search_all, and
\* total_results is the sum of the lengths of the three returned lists.
C3_StrategyFailureIsolated ==
    /\ error.origin \notin Strategies
    /\ SearchAllReturned =>
          /\ \A s \in Strategies :
                /\ task[s] = "raised" => Returned_(s) = <<>>
                /\ task[s] = "done" => SameRows(Returned_(s), task_value[s])
          /\ search_results.total_results =
                Len(search_results.keyword_results)
                + Len(search_results.semantic_results)
                + Len(search_results.graph_results)

\* the graph call raised and search_all returned the rows of the keyword call
C3_Witness ==
    /\ SearchAllReturned
    /\ task["graph"] = "raised"
    /\ task["semantic"] = "done"
    /\ search_results.graph_results = <<>>
    /\ Len(search_results.keyword_results) = MaxRows
    /\ search_results.total_results = MaxRows

\* C5: with the cross-encoder stage enabled and a non-empty fused list, the
\* number of fused candidates sent to the relevance model is
\* min(len(fused), rerank_k) for the rerank_k computed for this query.
C5_SendsRerankK ==
    (pc \in {"context", "responded"} /\ reranked_results.sent # None) =>
        reranked_results.sent =
            Min(Len(fuse(search_results.keyword_results,
                         search_results.semantic_results,
                         search_results.graph_results)),
                k_values.rerank_k)

\* C7: a request failing because the cross-encoder's library is unavailable
\* fails with an error type that no other failure of process_query has.
C7_ConfigErrorDistinguishable ==
    (pc = "failed" /\ error.origin = "rerank") =>
        \A other \in {[type |-> "RuntimeError", origin |-> "prepare"],
                      [type |-> "PostgresError", origin |-> "freshness"],
                      [type |-> "RuntimeError", origin |-> "synthesis"]} :
            raised # ExceptHandler(other)

\* C8: once a strategy call hangs, search_all still eventually returns (or
\* raises).
C8_HangDoesNotBlock ==
    (\E s \in Strategies : task[s] = "hung")
        ~> (SearchAllReturned \/ SearchAllRaised)

\* C9: all three strategy calls are started before any of them is awaited,
\* and search_all neither begins freshness scoring nor returns until each of
\* the three has completed or failed.
C9_WaitsForAll ==
    /\ (\E s \in Strategies : task[s] # "none") =>
          (\A s \in Strategies : task[s] # "none")
    /\ (pc \in FreshPcs \/ SearchAllReturned \/ SearchAllRaised) =>
          (\A s \in Strategies : Finished(task[s]))

\* freshness scoring has begun after one task raised and two returned
C9_Witness ==
    /\ pc = "fresh_keyword"
    /\ task["graph"] = "raised"
    /\ task["keyword"] = "done"
    /\ task["semantic"] = "done"
    /\ keyword_results # <<>>
    /\ given = 2
    /\ graph_results = <<>>

\* C10: no strategy's search() ever raises; on a failure of its backing
\* store each returns an empty list.
C10_StrategiesNeverRaise ==
    \A s \in Strategies : task[s] # "raised"

\* C11: on either search path (search_all, and search_by_documents when the
\* request carries document_ids) a single strategy's failure never fails the
\* request: process_query never ends in its handler with a strategy's
\* exception, the failing search contributing an empty list instead.
C11_StrategyFailureNeverSurfaced ==
    pc = "failed" =>
        error.origin \notin Strategies \cup {"documents_keyword"}

(* ---- the freshness stage ---- *)
\* the list of strategy s as it is handed to _apply_freshness_scoring
PreFreshness(s) == IF task[s] = "raised" THEN <<>> ELSE task_value[s]
ResultsOf(s) ==
    CASE s = "keyword" -> keyword_results
      [] s = "semantic" -> semantic_results
      [] OTHER -> graph_results
\* the documents table has a created_at for the source of this result
HasTimestamp(result) == result.source \in DocumentNames

\* C12: _apply_freshness_scoring returns a list of the same length and order
\* as its input, and a result whose document timestamp is unavailable (source
\* 'unknown', or no document row for its source) is returned unchanged: same
\* id, content, source, score and metadata.
C12_UnavailablePassedThrough ==
    \A s \in Strategies :
        freshness_calls[s] >= 1 =>
            LET pre == PreFreshness(s)
                post == ResultsOf(s)
            IN  /\ Len(post) = Len(pre)
                /\ \A i \in 1..Len(pre) :
                      /\ post[i].id = pre[i].id
                      /\ ~HasTimestamp(pre[i]) => post[i] = pre[i]

\* the keyword list went through the stage: its first result was boosted, the
\* third (source 'unknown') and the fourth (no document row) were not touched
C12_Witness ==
    /\ ~document_ids
    /\ freshness_calls["keyword"] = 1
    /\ Len(keyword_results) = MaxRows
    /\ keyword_results[1].score # task_value["keyword"][1].score
    /\ keyword_results[3].source = "unknown"
    /\ keyword_results[3] = task_value["keyword"][3]
    /\ keyword_results[4].source = "doc_c"
    /\ keyword_results[4] = task_value["keyword"][4]

\* C13: the freshness stage never raises: search_all never ends with an
\* exception of the document-metadata lookup (the affected results are left
\* unboosted instead).
C13_FreshnessNeverRaises ==
    ~(pc = "failed" /\ error.origin = "freshness")

\* C14: an empty query (the empty string or a whitespace-only string) is
\* rejected with a validation error before any I/O is issued: no history
\* read, expansion call, search or history write happens for it, and the
\* caller receives a validation error, not a generic processing failure.
C14_EmptyQueryRejected ==
    IsBlank(query) =>
        /\ io = {}
        /\ pc \in {"request", "rejected"}
        /\ pc = "rejected" => raised = "ValidationError"

\* C17: process_query asks the reranking pipeline for up to 20 results, not
\* the pipeline default of 5: context building receives min(20, number of
\* reranked candidates) results.
C17_ProductionFinalK ==
    pc \in {"context", "responded"} =>
        Len(reranked_results.value) =
            Min(20, Min(RerankTopK,
                        Len(fuse(search_results.keyword_results,
                                 search_results.semantic_results,
                                 search_results.graph_results))))

\* the score a result has after one application of the freshness boost
BoostedOnce(result) ==
    IF HasTimestamp(result)
    THEN apply_freshness_boost(result.score,
             calculate_freshness_score(DocumentAge(result.source)), query)
    ELSE result.score

\* C18: on both search paths every per-strategy list goes through the
\* freshness stage exactly once, before it is passed to RRF fusion: each
\* result handed to fusion carries its score boosted once, no list is boosted
\* twice, and nothing is boosted after fusion.
C18_FreshnessOnceBeforeFusion ==
    /\ \A s \in Strategies : freshness_calls[s] <= 1
    /\ search_results.returned =>
          \A s \in Strategies :
              LET pre == PreFreshness(s)
                  post == Returned_(s)
              IN  /\ post # <<>> => freshness_calls[s] = 1
                  /\ Len(post) = Len(pre)
                  /\ \A i \in 1..Len(post) :
                        post[i].score = BoostedOnce(pre[i])
    /\ pc \in {"context", "responded"} => search_results.returned

\* a request with document_ids was answered; the first keyword result went
\* into fusion boosted once
C18_Witness ==
    /\ document_ids
    /\ pc = "responded"
    /\ freshness_calls["keyword"] = 1
    /\ freshness_calls["semantic"] = 1
    /\ Len(search_results.keyword_results) = MaxRows
    /\ search_results.keyword_results[1].score
          # task_value["keyword"][1].score
    /\ search_results.keyword_results[1].score
          = BoostedOnce(task_value["keyword"][1])

\* C19: the document-metadata lookup is issued at most once per search
\* request, one bulk fetch covering the sources of all three result lists.
C19_OneLookupPerRequest ==
    lookups <= 1

(* ========================= properties of SpecK ======================== *)
\* C15: for every query text and every optional expansion set,
\* calculate_k_values returns keyword_k = semantic_k within [20, 100],
\* 10 <= graph_k <= 100 and 0 <= rerank_k <= 25.
C15_KValuesWithinBounds ==
    call.op = "calculate_k_values" =>
        /\ k_values.keyword_k = k_values.semantic_k
        /\ k_values.keyword_k >= 20
        /\ k_values.keyword_k <= 100
        /\ k_values.graph_k >= 10
        /\ k_values.graph_k <= 100
        /\ k_values.rerank_k >= 0
        /\ k_values.rerank_k <= 25

\* the richest input: the largest adjusted_k, with rerank_k at its cap
C15_Witness ==
    /\ call.op = "calculate_k_values"
    /\ WordCount(query) >= 8
    /\ expansions # None
    /\ expansions >= 8
    /\ k_values.keyword_k = 71
    /\ k_values.graph_k = 35
    /\ k_values.rerank_k = 25

\* the claimed complexity, in units of 1/(40 * number of factors): 0.5 plus
\* the average of min(word_count/8, 1), 0.8 or 0.4, and (when expansions are
\* supplied) min(expansion_term_count/8, 1), clamped to [0.5, 1.5]
ClaimedAdjustedK(q, e) ==
    LET n == IF e = None THEN 2 ELSE 3
        sum == 5 * Min(WordCount(q), 8)
               + (IF \E word \in question_words : Contains(lower(q), word)
                  THEN 32 ELSE 16)
               + (IF e = None THEN 0 ELSE 5 * Min(e, 8))
        complexity == Max(20 * n, Min(60 * n, 20 * n + sum))
    IN  Max(20, Min(100, (50 * complexity) \div (40 * n)))

\* C16: adjusted_k = clamp(floor(base_k * complexity), min_k, max_k) for the
\* complexity defined above; keyword_k = semantic_k = adjusted_k,
\* graph_k = max(10, adjusted_k div 2), rerank_k = min(25, adjusted_k div 2);
\* adjusted_k is non-decreasing in the word count and in the number of
\* expansion terms.
C16_KFormula ==
    call.op = "calculate_k_values" =>
        LET adjusted_k == ClaimedAdjustedK(query, expansions)
        IN  /\ k_values.keyword_k = adjusted_k
            /\ k_values.semantic_k = adjusted_k
            /\ k_values.graph_k = Max(10, adjusted_k \div 2)
            /\ k_values.rerank_k = Min(25, adjusted_k \div 2)
            /\ \A n \in 1..MaxWords, question \in BOOLEAN :
                  calculate_k_values(MakeQuery(n, question),
                                     expansions).keyword_k
                    <= calculate_k_values(MakeQuery(n, question)
                                              \o <<" ", "i", "t", "e", "m">>,
                                          expansions).keyword_k
            /\ \A e \in 0..MaxTerms :
                  calculate_k_values(query, e).keyword_k
                    <= calculate_k_values(query, e + 1).keyword_k

(* ===================== properties of SpecFuse (ties) ================== *)
\* position of the first appearance of id in keyword, semantic, graph order
FirstPosition(id) ==
    LET all == keyword_results \o semantic_results \o graph_results
    IN  CHOOSE q \in 1..Len(all) :
            /\ all[q].id = id
            /\ \A r \in 1..(q - 1) : all[r].id # id

\* C20: ids of equal fused RRF score stand in the output in the order of
\* their first appearance across the lists (keyword, semantic, graph; by rank
\* within a list): the sort never swaps two equal-score ids.
C20_TiesByFirstAppearance ==
    call.op = "fuse" =>
        \A i, j \in 1..Len(ret.value) :
            (i < j /\ ret.value[i].score = ret.value[j].score) =>
                FirstPosition(ret.value[i].id) < FirstPosition(ret.value[j].id)

\* two long lists of disjoint ids were fused: the results of equal rank tie,
\* and the keyword one stands first
C20_Witness ==
    /\ call.op = "fuse"
    /\ Len(keyword_results) = LongLen
    /\ Len(semantic_results) = LongLen
    /\ graph_results = <<>>
    /\ ret.value[1].score = ret.value[2].score
    /\ ret.value[1].id = keyword_results[1].id
    /\ ret.value[2].id = semantic_results[1].id
    /\ ret.value[3].score = ret.value[4].score
    /\ ret.value[3].id = keyword_results[2].id
    /\ ret.value[4].id = semantic_results[2].id

\* the three input lists handed to fuse in the order o
Orders ==
    {<<1, 2, 3>>, <<1, 3, 2>>, <<2, 1, 3>>, <<2, 3, 1>>, <<3, 1, 2>>,
     <<3, 2, 1>>}
FusedIn(o) == fuse(AllInputs[o[1]], AllInputs[o[2]], AllInputs[o[3]])
DoublesIn(o) == rrf_scores(AllInputs[o[1]], AllInputs[o[2]], AllInputs[o[3]])

\* C21: for every permutation of the three input lists passed to fuse the
\* set of output ids is the same and each id receives the same fused score
\* (the double that is its score and its metadata.rrf_score).
C21_PermutationInvariant ==
    call.op = "fuse" =>
        \A o \in Orders :
            /\ ResultIds(FusedIn(o)) = ResultIds(ret.value)
            /\ \A id \in InputIds :
                  DoublesIn(o)[id] = DoublesIn(<<1, 2, 3>>)[id]

(* ======================= properties of SpecFresh ====================== *)
ScoreCalled == pc = "pure_fresh" /\ call.op = "calculate_freshness_score"

C23_FreshnessWithinRange ==
    (ScoreCalled /\ call.config = FreshnessConfig) =>
        LET age == ret.value.age_days
            min_score == exp_decay(max_age_days)
        IN  /\ ret.value.freshness_score >= min_score
            /\ ret.value.freshness_score <= FreshScale
            /\ (0 <= age /\ age < max_age_days) =>
                  calculate_freshness_score(age + 1).freshness_score
                      < ret.value.freshness_score

\* the amount by which apply_freshness_boost multiplies, in thousandths
ClaimedMultiplier(q, freshness_score) ==
    LET w == IF \E keyword \in temporal_keywords : Contains(lower(q), keyword)
             THEN 400 ELSE 200
    IN  1000 + (w * (freshness_score.boost_factor - 1000)) \div 1000
Sign(x) == IF x > 0 THEN 1 ELSE IF x < 0 THEN 0 - 1 ELSE 0

\* C24: apply_freshness_boost returns original_score * (1 + w * (boost_factor
\* - 1)), w being 0.4 exactly when the lower-cased query contains a temporal
\* keyword and 0.2 otherwise; "latest travel trends in 2024" is temporal and
\* "what is a brand" is not; the multiplier is positive, so a boosted score
\* keeps its sign and two scores of one category keep their order.
C24_BoostFormula ==
    /\ (pc = "pure_fresh" /\ call.op = "is_temporal_query") =>
          /\ query = LatestTravelTrends => ret.value = TRUE
          /\ query = WhatIsABrand => ret.value = FALSE
    /\ (pc = "pure_fresh" /\ call.op = "apply_freshness_boost") =>
          LET m == ClaimedMultiplier(query, call.freshness_score)
          IN  /\ ret.value = (call.original_score * m) \div 1000
              /\ m > 0
              /\ Sign(ret.value) = Sign(call.original_score)
              /\ \A other \in OriginalScores :
                    other < call.original_score =>
                        apply_freshness_boost(other, call.freshness_score,
                                              query) < ret.value

\* 0.5 of a very old document under a temporal query: 0.5 * 0.96
C24_Witness ==
    /\ pc = "pure_fresh"
    /\ call.op = "apply_freshness_boost"
    /\ query = LatestTravelTrends
    /\ call.original_score = 500
    /\ call.freshness_score.freshness_category = "very_old"
    /\ ret.value = 480

C26_ListsOrderedByBoostedScore ==
    SearchAllReturned =>
        \A s \in Strategies : OrderedDesc(Returned_(s))

\* C27: when the vector-similarity capability succeeds and gives n >= 1
\* results, SemanticSearchStrategy.search returns n SearchResults, one per
\* result in the same order, each tagged metadata.type = "semantic" and
\* carrying the result's similarity as score; it returns an empty list only
\* when the capability gives no results or fails.
C27_SemanticResults ==
    given >= 1 =>
        /\ Len(task_value["semantic"]) = given
        /\ \A i \in 1..Len(task_value["semantic"]) :
              /\ task_value["semantic"][i].id = SemanticIds(given)[i]
              /\ task_value["semantic"][i].metadata.type = "semantic"
              /\ task_value["semantic"][i].score = InputScore("semantic", i)

\* C28: search_all called with an integer limit as its second argument, as
\* the /queries/search endpoint and the component test call it, starts the
\* three strategies and returns a SearchResults; it does not end in an error
\* before any strategy is started.
C28_SearchAllWithLimit ==
    ~(/\ pc = "search_failed"
      /\ error.origin = "search_all"
      /\ \A s \in Strategies : task[s] = "none")

(* ====================== properties of SpecHistory ===================== *)
\* the text the user submitted for the request stored in row i
Submitted(i) == log[i + Len(log) - Len(query_history)]

\* C29: the query_text stored in a query_history record is the user's
\* original query: after any sequence of process_query calls of one user
\* every stored query_text equals the text the user submitted for that
\* request, not the context-expanded text, so no expansion suffix reaches the
\* recent queries of a later request's conversation context.
C29_StoredQueryIsOriginal ==
    pc \in {"idle", "context", "expand", "process", "store"} =>
        /\ \A i \in 1..Len(query_history) :
              query_history[i].query_text = Submitted(i)
        /\ \A i \in 1..Len(call.conversation_context.recent_queries) :
              ~Contains(call.conversation_context.recent_queries[i],
                        <<"(", "c", "o", "n", "t", "e", "x", "t", ":">>)

(* ===================== properties of SpecPipeline ===================== *)
Started(stage_status) == stage_status \in {"running", "completed", "failed"}

\* the stages of an execution are in order, and a failed stage is the last
\* one that started and the failed_stage of a failed execution
InOrder(execution) ==
    /\ \A i, j \in 1..Len(PipelineStages) :
          i < j /\ Started(execution.stages[PipelineStages[j]])
              => execution.stages[PipelineStages[i]] = "completed"
    /\ \A stage \in StageNames :
          execution.stages[stage] = "failed" /\ execution.at = "done"
              => /\ execution.status = "failed"
                 /\ execution.failed_stage = stage

\* an execution has ended: its task is over, it is completed or failed and
\* it is no longer active
Ended(id) ==
    /\ At(id, "done")
    /\ executions[id].status \in {"completed", "failed"}
    /\ id \notin active_executions

\* C30: in every pipeline execution the six stages run strictly in the order
\* document_processing, chunking, embedding_generation, entity_extraction,
\* relationship_extraction, graph_construction: a stage is running only after
\* every earlier stage is completed; once a stage fails no later stage ever
\* starts and the execution ends failed with that stage as failed_stage;
\* every execution eventually ends completed or failed and is then removed
\* from active_executions, the document wait giving up after at most
\* max_retries polls.
C30_StagesInOrderAndEnd ==
    /\ [](\A id \in 1..Len(executions) :
            /\ InOrder(executions[id])
            /\ executions[id].retry_count <= max_retries
            /\ At(id, "done") => Ended(id))
    /\ \A id \in ExecutionIds : (id <= Len(executions)) ~> [](Ended(id))

\* an execution ended failed at chunking, with the document wait over after
\* some polls and every later stage still pending
C30_Witness ==
    /\ Ended(1)
    /\ executions[1].status = "failed"
    /\ executions[1].failed_stage = "chunking"
    /\ executions[1].stages["document_processing"] = "completed"
    /\ executions[1].stages["chunking"] = "failed"
    /\ \A i \in 3..Len(PipelineStages) :
          executions[1].stages[PipelineStages[i]] = "pending"
====
